---- MODULE Spec2Model ----
(***************************************************************************)
(* The agent runtime of agentouto: Runtime.execute / _run_agent_loop /     *)
(* _execute_tool_call (batch path, asyncio.gather fan-out) and             *)
(* Runtime.execute_stream / _stream_agent_loop (streaming path, serial).   *)
(*                                                                         *)
(* One state of the model is one state of a Runtime object between two     *)
(* suspension points of the event loop.  An action is everything one       *)
(* coroutine does between two awaits that really suspend: the LLM call,    *)
(* the tool callable, and the join of asyncio.gather.                      *)
(*                                                                         *)
(* Python values: None is <<>> and a present optional value x is <<x>>;    *)
(* a dict is a function on its keys; a uuid4 call_id is the number of the  *)
(* id minted (1, 2, ...), and the null parent_call_id is NoCall.           *)
(***************************************************************************)
EXTENDS Integers, Sequences, FiniteSets, TLC

\* ------------------------------------------------------------------ bounds
\* Tool calls in one LLM response.
MaxCalls == 2
\* LLM calls answered in one run, all agents together.  An LLM asks for
\* more work (tool calls without finish) only while the calls that work
\* needs still fit, so that every run can come to its end within the bound.
MaxLLMCalls == 4
\* LLM calls answered in one agent loop.
MaxTurns == 2
\* Vendor events in one Anthropic response stream.
MaxEvents == 3
\* Tools in the list a Router is built with.
MaxTools == 2
\* call_llm invocations on one Router.
MaxRouterCalls == 3
\* add_* calls on one Context, reads of Context.messages, and changes made
\* to the lists those reads returned.
MaxAdds == 3
MaxSnapshots == 2
MaxMutations == 2
\* record calls on one EventLog, and reads of it through events or filter.
MaxRecords == 3
MaxReads == 2
\* Pieces of text an LLM's content is made of.
MaxParts == 4
\* Calls of one agent made on the Anthropic adapter, one after another.
MaxAnthropicCalls == 2
\* Delegation depth below the entry agent that the LLMs of a terminating run
\* ask for.
MaxDepth == 2

\* ----------------------------------------------------------- Python values
None == <<>>
Some(x) == <<x>>

\* d.get(k, default)
dict_get(d, k, default) == IF k \in DOMAIN d THEN d[k] ELSE default

EmptyDict == <<>>

\* The null parent_call_id / call_id of no frame.
NoCall == 0

\* ---------------------------------------------------------------- registry
CALL_AGENT == "call_agent"
FINISH == "finish"

\* Router._agents, Router._tools: the registered names.  Router.__init__
\* takes any Tool, so the user's tools may be named like the sentinels.
RegisteredAgents == {"A", "B"}
RegisteredTools == {"search", CALL_AGENT, FINISH}

\* The entry agent handed to execute / execute_stream, and its message.
EntryAgent == "A"
EntryMessage == "go"

\* Agent.provider of every agent (one provider).
ProviderName == "openai"

\* ------------------------------------------------------------- exceptions
\* str(ToolError(tool_name, message))
ToolErrorStr(tool_name, message) == "[" \o tool_name \o "] " \o message

\* str(RoutingError("Unknown agent: <name>"))
RoutingErrorStr(name) == "Unknown agent: " \o name

\* str(ProviderError(provider_name, message))
ProviderErrorStr(provider_name, message) == "[" \o provider_name \o "] " \o message

\* An exception in flight: its class, its str(), and the str() of the
\* exception it was raised from (None without "from exc").
Exc(cls, text, cause) == [cls |-> cls, text |-> text, cause |-> cause]

\* ----------------------------------------------------------------- Context
UserMsg(content) ==
    [role |-> "user", content |-> Some(content), tool_calls |-> None,
     tool_call_id |-> None, tool_name |-> None]

AssistantToolCallsMsg(tool_calls, content) ==
    [role |-> "assistant", content |-> content, tool_calls |-> Some(tool_calls),
     tool_call_id |-> None, tool_name |-> None]

ToolResultMsg(tool_call_id, tool_name, content) ==
    [role |-> "tool", content |-> Some(content), tool_calls |-> None,
     tool_call_id |-> Some(tool_call_id), tool_name |-> Some(tool_name)]

add_user(ctx, content) == Append(ctx, UserMsg(content))

add_assistant_text(ctx, content) ==
    Append(ctx, [role |-> "assistant", content |-> Some(content), tool_calls |-> None,
                 tool_call_id |-> None, tool_name |-> None])

add_assistant_tool_calls(ctx, tool_calls, content) ==
    Append(ctx, AssistantToolCallsMsg(tool_calls, content))

\* A tool message with the call's name where its id belongs.
add_tool_result_swapped(ctx, tool_call_id, tool_name, content) ==
    Append(ctx, ToolResultMsg(tool_name, tool_call_id, content))

add_tool_result(ctx, tool_call_id, tool_name, content) ==
    Append(ctx, ToolResultMsg(tool_call_id, tool_name, content))

\* ----------------------------------------------------------------- helpers
TruncateLen == 200

truncate(text) ==
    IF Len(text) <= TruncateLen THEN text
    ELSE SubSeq(text, 1, TruncateLen) \o "..."

\* A scan that looks at the first tool call only.
find_finish_head(tool_calls) ==
    IF Len(tool_calls) > 0 /\ tool_calls[1].name = FINISH
    THEN Some(tool_calls[1]) ELSE None

\* A scan that never finds a finish call.
find_finish_none(tool_calls) == None

\* A scan that keeps the last finish call instead of the first.
find_finish_last(tool_calls) ==
    LET idx == {i \in 1..Len(tool_calls) : tool_calls[i].name = FINISH}
    IN  IF idx = {} THEN None
        ELSE Some(tool_calls[CHOOSE i \in idx : \A j \in idx : i >= j])

\* The first tool call named finish, scanning left to right; None if none.
find_finish(tool_calls) ==
    LET idx == {i \in 1..Len(tool_calls) : tool_calls[i].name = FINISH}
    IN  IF idx = {} THEN None
        ELSE Some(tool_calls[CHOOSE i \in idx : \A j \in idx : i <= j])

\* response.content or ""
ContentOrEmpty(content) ==
    IF content = None THEN ""
    ELSE IF content[1] = "" THEN "" ELSE content[1]

\* LLMResponse.__init__: tool_calls or []
LLMResponse(content, tool_calls) ==
    [content |-> content,
     tool_calls |-> IF tool_calls = None THEN <<>> ELSE tool_calls[1]]

\* A Message with sender and receiver exchanged.
Message_swapped(type, sender, receiver, content, call_id) ==
    [type |-> type, sender |-> receiver, receiver |-> sender,
     content |-> content, call_id |-> call_id]

Message(type, sender, receiver, content, call_id) ==
    [type |-> type, sender |-> sender, receiver |-> receiver,
     content |-> content, call_id |-> call_id]

AgentEvent(event_type, agent_name, call_id, parent_call_id, details) ==
    [event_type |-> event_type, agent_name |-> agent_name, call_id |-> call_id,
     parent_call_id |-> parent_call_id, details |-> details]

\* A record with call_id and parent_call_id exchanged.
record_swapped(log, event_type, agent_name, call_id, parent_call_id, details) ==
    IF log = None THEN None
    ELSE Some(Append(log[1],
              AgentEvent(event_type, agent_name, parent_call_id, call_id, details)))

\* Runtime._record: nothing without an event log (debug off).
record(log, event_type, agent_name, call_id, parent_call_id, details) ==
    IF log = None THEN None
    ELSE Some(Append(log[1],
              AgentEvent(event_type, agent_name, call_id, parent_call_id, details)))

\* ------------------------------------------------------------ environment
\* What an adapter may hand back as content.
Contents == {None, Some(""), Some("hi")}

FinishShapes ==
    {[name |-> FINISH, arguments |-> [message |-> "done"]],
     [name |-> FINISH, arguments |-> EmptyDict]}

\* call_agent to a registered agent, and call_agent with no arguments
\* (agent_name defaults to "", which is not registered).
KnownAgentShapes ==
    {[name |-> CALL_AGENT, arguments |-> [agent_name |-> "B", message |-> "sub"]]}

UnknownAgentShapes == {[name |-> CALL_AGENT, arguments |-> EmptyDict]}

\* A registered tool and a tool nobody registered.
ToolShapes ==
    {[name |-> "search", arguments |-> [query |-> "q"]],
     [name |-> "nope", arguments |-> EmptyDict]}

\* The tool calls the LLM of an agent may ask for: anything for the entry
\* agent "A"; agent "B" finishes or searches.
CallShapes(agent) ==
    IF agent = "B"
    THEN {[name |-> FINISH, arguments |-> [message |-> "done"]],
          [name |-> "search", arguments |-> [query |-> "q"]]}
    ELSE FinishShapes \cup KnownAgentShapes \cup UnknownAgentShapes \cup ToolShapes

\* The vendor-issued id of the k-th tool call of a response.
TcId(k) == "tc" \o ToString(k)

WithIds(shapes) ==
    [k \in 1..Len(shapes) |->
        [id |-> TcId(k), name |-> shapes[k].name, arguments |-> shapes[k].arguments]]

ToolCallLists(agent) ==
    UNION {{WithIds(s) : s \in [1..n -> CallShapes(agent)]} : n \in 1..MaxCalls}

\* Every LLMResponse an adapter may build for an agent (tool_calls=None
\* included: the constructor turns it into []).  A response with tool calls
\* has content None or a text.
Responses(agent) ==
    {LLMResponse(c, t) : c \in Contents, t \in {None, Some(<<>>)}}
    \cup {LLMResponse(c, Some(l)) : c \in {None, Some("hi")}, l \in ToolCallLists(agent)}

ResponsesA == Responses("A")
ResponsesB == Responses("B")

\* What a tool callable may return (Tool.execute applies str) or raise.
ToolReturns == {"res"}
ToolRaises == {"boom"}

\* The message of a ProviderError raised by Router.call_llm.
ProviderFailure == "down"

\* ------------------------------------------------------------------- state
VARIABLES
    debug,      \* Runtime._debug
    event_log,  \* Runtime._event_log: None, or Some(list of AgentEvent)
    messages,   \* Runtime._messages
    frames,     \* one record per agent loop started, indexed by its call_id
    run,        \* the entry point: which one, and how it ended
    stream,     \* the StreamEvents execute_stream has yielded
    last,       \* the last LLM answer: None, or Some([call_id, response])
    answered,   \* LLM calls answered so far
    adapter,    \* one run of a ProviderBackend.stream generator
    router,     \* a Router and the calls made on it
    context_obj,\* a Context, the lists handed out by it, and their holders' changes
    llm_response,\* an LLMResponse, what was read from it and built from it
    anthropic,  \* one AnthropicBackend call: its requests to the vendor and _max_tokens_cache
    harness,    \* two runs on one deterministic adapter: its answers so far, the LLM calls of the run, the first run's result
    log_obj     \* an EventLog, the lists handed out by it, and their holders' changes

vars == <<debug, event_log, messages, frames, run, stream, last, answered, adapter, router, context_obj, llm_response, anthropic, harness, log_obj>>

\* No adapter stream under observation.
IdleAdapter ==
    [kind |-> "none", status |-> "idle", response |-> None, events |-> <<>>,
     pos |-> 0, accumulated_content |-> "", tool_blocks |-> <<>>,
     yielded |-> <<>>]

\* No Router under observation.
IdleRouter ==
    [obj |-> None, schemas |-> None, created |-> <<>>, used |-> <<>>,
     pending |-> {}, calls |-> 0, raised |-> None]

\* No Context under observation.
IdleContext ==
    [lists |-> <<>>, internal |-> 0, added |-> <<>>, snapshots |-> <<>>,
     mutations |-> 0]

\* No LLMResponse under observation.
IdleResponse ==
    [parts |-> <<>>, given |-> None, response |-> None, read |-> None,
     context |-> <<>>]

\* No EventLog under observation.
IdleEventLog ==
    [lists |-> <<>>, internal |-> 0, recorded |-> <<>>, handed |-> <<>>,
     mutations |-> 0, seen |-> None]

\* No pair of runs under observation.
IdleHarness == [policy |-> {}, calls |-> {}, first |-> None]

\* No AnthropicBackend call under observation.
IdleAnthropic ==
    [max_output_tokens |-> None, cache |-> <<>>, pc |-> "idle", requests |-> <<>>,
     errors |-> <<>>, cached_at_error |-> FALSE, raised |-> None, calls |-> 0]

\* A task of asyncio.gather: st is "new" (created), "tool" (awaiting the
\* callable), "sub" (awaiting a sub-agent loop), "done" (val is the result)
\* or "exc" (val is the exception).
NewTask == [st |-> "new", val |-> ""]

\* A loop that continues on the Context of the loop that called it.
NewFrame_shared_context(agent, forward_message, call_id, parent_call_id, slot) ==
    [agent |-> agent, call_id |-> call_id, parent_call_id |-> parent_call_id,
     slot |-> slot,
     context |-> add_user(IF parent_call_id = NoCall THEN <<>>
                          ELSE frames[parent_call_id].context,
                          forward_message),
     pc |-> "await_llm",
     response |-> None,
     tasks |-> <<>>,
     order |-> <<>>,
     idx |-> 0,
     sub_result |-> "",
     output |-> None,
     llm |-> 1,
     rounds |-> 0]

\* The locals of one _run_agent_loop / _stream_agent_loop invocation.
\* pc: "await_llm", "gather" (batch), "tool" / "sub" (streaming, at tool call
\* idx), and "returned", "error", "raised" once it is over.
NewFrame(agent, forward_message, call_id, parent_call_id, slot) ==
    [agent |-> agent, call_id |-> call_id, parent_call_id |-> parent_call_id,
     slot |-> slot,
     context |-> add_user(<<>>, forward_message),
     pc |-> "await_llm",
     response |-> None,
     tasks |-> <<>>,
     order |-> <<>>,
     idx |-> 0,
     sub_result |-> "",
     output |-> None,
     llm |-> 1,
     rounds |-> 0]

\* A loop that is over: its locals are gone, its output (if any) stays.
EndFrame(fr, pc, output) ==
    [fr EXCEPT !.pc = pc, !.output = output, !.context = <<>>, !.response = None,
               !.tasks = <<>>, !.order = <<>>, !.idx = 0, !.sub_result = "",
               !.llm = 0, !.rounds = 0]

Live(fr) == fr.pc \notin {"returned", "error", "raised"}

\* The components an operation changes, as one value.
State ==
    [frames |-> frames, messages |-> messages, event_log |-> event_log,
     run |-> run, stream |-> stream]

Apply(S) ==
    /\ frames' = S.frames
    /\ messages' = S.messages
    /\ event_log' = S.event_log
    /\ run' = S.run
    /\ stream' = S.stream

\* A Runtime that creates its EventLog whatever debug is.
Init_always_log ==
    /\ debug \in BOOLEAN
    /\ event_log = Some(<<>>)
    /\ messages = <<>>
    /\ frames = <<>>
    /\ run = [mode |-> "idle", status |-> "idle", value |-> None, output |-> ""]
    /\ stream = <<>>
    /\ last = None
    /\ answered = 0
    /\ adapter = IdleAdapter
    /\ log_obj = IdleEventLog
    /\ harness = IdleHarness
    /\ anthropic = IdleAnthropic
    /\ llm_response = IdleResponse
    /\ context_obj = IdleContext
    /\ router = IdleRouter

Init ==
    /\ debug \in BOOLEAN
    /\ event_log = IF debug THEN Some(<<>>) ELSE None
    /\ messages = <<>>
    /\ frames = <<>>
    /\ run = [mode |-> "idle", status |-> "idle", value |-> None, output |-> ""]
    /\ stream = <<>>
    /\ last = None
    /\ answered = 0
    /\ adapter = IdleAdapter
    /\ log_obj = IdleEventLog
    /\ harness = IdleHarness
    /\ anthropic = IdleAnthropic
    /\ llm_response = IdleResponse
    /\ context_obj = IdleContext
    /\ router = IdleRouter

\* A response that ends the loop: no tool calls, or a finish among them.
Terminal(response) ==
    \/ Len(response.tool_calls) = 0
    \/ \E i \in 1..Len(response.tool_calls) : response.tool_calls[i].name = FINISH

\* The LLM calls a run still needs once frame f got `response`: one for
\* every loop in progress and one for every sub-agent the response starts.
Needed(response) ==
    Cardinality({g \in 1..Len(frames) : Live(frames[g])})
    + Cardinality({i \in 1..Len(response.tool_calls) :
                     /\ response.tool_calls[i].name = CALL_AGENT
                     /\ dict_get(response.tool_calls[i].arguments, "agent_name", "")
                            \in RegisteredAgents})

\* The answers the model lets the LLM give to frame f.
Answers(f) ==
    {r \in (IF frames[f].agent = "B" THEN ResponsesB ELSE ResponsesA) :
        \/ Terminal(r)
        \/ /\ frames[f].llm < MaxTurns
           /\ answered + 1 + Needed(r) <= MaxLLMCalls}

\* ------------------------------------------------------------- batch path
\* Runtime.execute up to its await, with _run_agent_loop up to the first
\* call_llm.
Execute ==
    /\ run.status = "idle"
    /\ LET call_id == Len(frames) + 1
           log1 == record(event_log, "agent_call", EntryAgent, call_id, NoCall,
                          [message |-> truncate(EntryMessage)])
           log2 == record(log1, "llm_call", EntryAgent, call_id, NoCall, EmptyDict)
       IN  /\ messages' = Append(messages,
                              Message("forward", "user", EntryAgent, EntryMessage, call_id))
           /\ event_log' = log2
           /\ frames' = Append(frames,
                              NewFrame(EntryAgent, EntryMessage, call_id, NoCall, 0))
           /\ run' = [run EXCEPT !.mode = "batch", !.status = "running"]
    /\ UNCHANGED <<adapter, debug, stream, last, answered, router, context_obj, llm_response, anthropic, harness, log_obj>>

\* bool(event_log): an EventLog has __len__, so an empty one is false.
Truthy(log) == log # None /\ Len(log[1]) > 0

\* Trace._build, first loop: one span per call_id, in the order in which the
\* call_ids first appear, with the agent_name and parent_call_id of the
\* first event of the call_id.
RECURSIVE build_spans(_, _, _)
build_spans(events, i, spans) ==
    IF i > Len(events) THEN spans
    ELSE IF \E k \in 1..Len(spans) : spans[k].call_id = events[i].call_id
    THEN build_spans(events, i + 1, spans)
    ELSE build_spans(events, i + 1,
                     Append(spans, [agent_name |-> events[i].agent_name,
                                    call_id |-> events[i].call_id,
                                    parent_call_id |-> events[i].parent_call_id]))

\* The call_ids of the spans at the positions ks, in the order of the spans.
in_span_order(spans, ks) ==
    [i \in 1..Cardinality(ks) |->
        spans[CHOOSE k \in ks : Cardinality({j \in ks : j < k}) = i - 1].call_id]

\* A trace that hangs every span under its parent twice.
Trace_child_twice(events) ==
    LET spans == build_spans(events, 1, <<>>)
        ids == {spans[k].call_id : k \in 1..Len(spans)}
        hung == {k \in 1..Len(spans) : /\ spans[k].parent_call_id # NoCall
                                       /\ spans[k].parent_call_id \in ids}
        loose == (1..Len(spans)) \ hung
    IN  [root |-> IF loose = {} THEN None
                  ELSE Some(spans[CHOOSE k \in loose : \A j \in loose : k <= j]),
         spans |-> [c \in ids |->
                      LET k == CHOOSE k \in 1..Len(spans) : spans[k].call_id = c
                          kids == in_span_order(
                                     spans, {j \in hung : spans[j].parent_call_id = c})
                      IN  [agent_name |-> spans[k].agent_name,
                           call_id |-> c,
                           parent_call_id |-> spans[k].parent_call_id,
                           children |-> kids \o kids]]]

\* Trace.__init__ / _build: the spans of the first loop; then, in their
\* order, each span whose parent_call_id is not null and has a span is
\* appended to that span's children, and the first of the others is the
\* root.  A span's children are given by their call_ids.
Trace(events) ==
    LET spans == build_spans(events, 1, <<>>)
        ids == {spans[k].call_id : k \in 1..Len(spans)}
        hung == {k \in 1..Len(spans) : /\ spans[k].parent_call_id # NoCall
                                       /\ spans[k].parent_call_id \in ids}
        loose == (1..Len(spans)) \ hung
    IN  [root |-> IF loose = {} THEN None
                  ELSE Some(spans[CHOOSE k \in loose : \A j \in loose : k <= j]),
         spans |-> [c \in ids |->
                      LET k == CHOOSE k \in 1..Len(spans) : spans[k].call_id = c
                      IN  [agent_name |-> spans[k].agent_name,
                           call_id |-> c,
                           parent_call_id |-> spans[k].parent_call_id,
                           children |-> in_span_order(
                                     spans, {j \in hung : spans[j].parent_call_id = c})]]]

RunResult(output, msgs, trace, log) ==
    [output |-> output, messages |-> msgs, trace |-> trace, event_log |-> log]

\* What awaits the value a loop returns: Runtime.execute for the entry
\* agent, the task of _execute_tool_call for a sub-agent.
loop_return(S, f, output) ==
    LET fr == S.frames[f]
        p == fr.parent_call_id
        S1 == [S EXCEPT !.frames[f] = EndFrame(fr, "returned", Some(output))]
    IN  IF p = NoCall
        THEN LET msgs == Append(S1.messages,
                                Message("return", fr.agent, "user", output, f))
                 log == record(S1.event_log, "agent_return", fr.agent, f, NoCall,
                               [result |-> truncate(output)])
                 trace == IF Truthy(log) THEN Some(Trace(log[1])) ELSE None
             IN  [S1 EXCEPT
                    !.messages = msgs,
                    !.event_log = log,
                    !.run = [@ EXCEPT !.status = "returned",
                                      !.value = Some(RunResult(output, msgs, trace, log))]]
        ELSE [S1 EXCEPT
                !.messages = Append(@,
                    Message("return", fr.agent, S.frames[p].agent, output, f)),
                !.event_log = record(@, "agent_return", fr.agent, f, p,
                                     [result |-> truncate(output)]),
                !.frames[p].tasks[fr.slot] = [st |-> "done", val |-> output],
                !.frames[p].order = Append(@, fr.slot)]

\* An exception leaving a loop: execute raises it for the entry agent; for a
\* sub-agent it leaves _execute_tool_call and ends that task of the gather.
loop_raise(S, f, exc) ==
    LET fr == S.frames[f]
        p == fr.parent_call_id
        S1 == [S EXCEPT !.frames[f] = EndFrame(fr, "raised", None)]
    IN  IF p = NoCall
        THEN [S1 EXCEPT !.run = [@ EXCEPT !.status = "raised", !.value = Some(exc)]]
        ELSE [S1 EXCEPT !.frames[p].tasks[fr.slot] = [st |-> "exc", val |-> exc],
                        !.frames[p].order = Append(@, fr.slot)]

\* A loop that returns response.content as it is, without the `or ""`.
text_output_raw(response) ==
    IF response.content = None THEN "None" ELSE response.content[1]

\* The value of a terminal response without tool calls.
text_output(response) == ContentOrEmpty(response.content)

\* The value of a terminal response with a finish call.
finish_output(finish_call) == dict_get(finish_call.arguments, "message", "")

\* _run_agent_loop from the return of call_llm to the next await.
loop_response(S, f, response) ==
    LET fr == S.frames[f]
        S1 == [S EXCEPT
                 !.frames[f].response = Some(response),
                 !.event_log = record(@, "llm_response", fr.agent, f, fr.parent_call_id,
                     [has_tool_calls |-> Len(response.tool_calls) > 0,
                      content_length |-> Len(ContentOrEmpty(response.content))])]
        finish_call == find_finish(response.tool_calls)
    IN  IF Len(response.tool_calls) = 0
        THEN loop_return(S1, f, text_output(response))
        ELSE IF finish_call # None
        THEN LET result == finish_output(finish_call[1])
                 S2 == [S1 EXCEPT !.event_log =
                            record(@, "finish", fr.agent, f, fr.parent_call_id,
                                   [result |-> truncate(result)])]
             IN  loop_return(S2, f, result)
        ELSE [S1 EXCEPT
                !.frames[f].context =
                    add_assistant_tool_calls(@, response.tool_calls, response.content),
                !.frames[f].tasks = [k \in 1..Len(response.tool_calls) |-> NewTask],
                !.frames[f].order = <<>>,
                !.frames[f].pc = "gather"]

\* Router.call_llm returns an LLMResponse to the loop of frame f.
LLMReturn(f) ==
    /\ run.mode = "batch"
    /\ frames[f].pc = "await_llm"
    /\ \E response \in Answers(f) :
          /\ Apply(loop_response(State, f, response))
          /\ last' = Some([call_id |-> f, response |-> response])
    /\ answered' = answered + 1
    /\ UNCHANGED <<adapter, debug, router, context_obj, llm_response, anthropic, harness, log_obj>>

\* Router.call_llm raises a ProviderError in the loop of frame f.
LLMRaise(f) ==
    /\ run.mode = "batch"
    /\ frames[f].pc = "await_llm"
    /\ Apply(loop_raise(State, f,
            Exc("ProviderError", ProviderErrorStr(ProviderName, ProviderFailure), None)))
    /\ answered' = answered + 1
    /\ UNCHANGED <<adapter, debug, last, router, context_obj, llm_response, anthropic, harness, log_obj>>

\* A test that lets a registered Tool of that name come first.
is_call_agent_unless_registered(tc) ==
    tc.name = CALL_AGENT /\ tc.name \notin RegisteredTools

\* if tc.name == CALL_AGENT: the test both loops make before any tool lookup.
is_call_agent(tc) == tc.name = CALL_AGENT

\* _execute_tool_call from its start to its first await.
execute_tool_call(S, f, k) ==
    LET fr == S.frames[f]
        tc == fr.response[1].tool_calls[k]
    IN  IF is_call_agent(tc)
        THEN LET agent_name == dict_get(tc.arguments, "agent_name", "")
                 message == dict_get(tc.arguments, "message", "")
                 sub_call_id == Len(S.frames) + 1
             IN  IF agent_name \notin RegisteredAgents
                 THEN [S EXCEPT
                         !.frames[f].tasks[k] =
                             [st |-> "exc",
                              val |-> Exc("RoutingError", RoutingErrorStr(agent_name), None)],
                         !.frames[f].order = Append(@, k)]
                 ELSE [S EXCEPT
                         !.messages = Append(@,
                             Message("forward", fr.agent, agent_name, message, sub_call_id)),
                         !.event_log =
                             record(record(@, "agent_call", agent_name, sub_call_id, f,
                                           [from |-> fr.agent, message |-> truncate(message)]),
                                    "llm_call", agent_name, sub_call_id, f, EmptyDict),
                         !.frames = Append(
                             [@ EXCEPT ![f].tasks[k] = [st |-> "sub", val |-> ""]],
                             NewFrame(agent_name, message, sub_call_id, f, k))]
        ELSE LET S1 == [S EXCEPT !.event_log =
                            record(@, "tool_exec", fr.agent, f, NoCall,
                                   [tool_name |-> tc.name, arguments |-> tc.arguments])]
             IN  IF tc.name \notin RegisteredTools
                 THEN [S1 EXCEPT
                         !.frames[f].tasks[k] =
                             [st |-> "exc",
                              val |-> Exc("ToolError",
                                          ToolErrorStr(tc.name, "Tool not found"), None)],
                         !.frames[f].order = Append(@, k)]
                 ELSE [S1 EXCEPT !.frames[f].tasks[k] = [st |-> "tool", val |-> ""]]

\* The event loop runs the k-th task of frame f's gather for the first time
\* (tasks start in the order gather created them).
TaskStart(f, k) ==
    /\ run.mode = "batch"
    /\ frames[f].pc = "gather"
    /\ k \in 1..Len(frames[f].tasks)
    /\ frames[f].tasks[k].st = "new"
    /\ \A j \in 1..(k - 1) : frames[f].tasks[j].st # "new"
    /\ Apply(execute_tool_call(State, f, k))
    /\ UNCHANGED <<adapter, debug, last, answered, router, context_obj, llm_response, anthropic, harness, log_obj>>

\* tool.execute returns in the k-th task of frame f.
ToolReturn(f, k) ==
    /\ run.mode = "batch"
    /\ k \in 1..Len(frames[f].tasks)
    /\ frames[f].tasks[k].st = "tool"
    /\ \E r \in ToolReturns :
          frames' = [frames EXCEPT ![f].tasks[k] = [st |-> "done", val |-> r],
                                   ![f].order = Append(@, k)]
    /\ UNCHANGED <<adapter, debug, event_log, messages, run, stream, last, answered, router, context_obj, llm_response, anthropic, harness, log_obj>>

\* The tool's callable raises in the k-th task of frame f: wrapped in ToolError.
ToolRaise(f, k) ==
    /\ run.mode = "batch"
    /\ k \in 1..Len(frames[f].tasks)
    /\ frames[f].tasks[k].st = "tool"
    /\ \E m \in ToolRaises :
          frames' = [frames EXCEPT
              ![f].tasks[k] =
                  [st |-> "exc",
                   val |-> Exc("ToolError",
                               ToolErrorStr(frames[f].response[1].tool_calls[k].name, m),
                               Some(m))],
              ![f].order = Append(@, k)]
    /\ UNCHANGED <<adapter, debug, event_log, messages, run, stream, last, answered, router, context_obj, llm_response, anthropic, harness, log_obj>>

\* A task that counts as finished only once it has a return value.
TaskFinished_only_returned(t) == t.st = "done"

\* A task that counts as finished while its sub-agent loop is running.
TaskFinished_with_sub_running(t) == t.st \in {"done", "exc", "sub"}

\* task.done()
TaskFinished(t) == t.st \in {"done", "exc"}

\* A wait that ends with the first finished task (FIRST_COMPLETED).
gather_done_first(tasks) == \E k \in 1..Len(tasks) : tasks[k].st \in {"done", "exc"}

\* asyncio.gather(*tasks, return_exceptions=True) is done when every task is.
gather_done(tasks) == \A k \in 1..Len(tasks) : TaskFinished(tasks[k])

\* Results in the reverse order of the tasks.
gather_results_reversed(tasks, order) ==
    [k \in 1..Len(tasks) |-> tasks[Len(tasks) + 1 - k]]

\* Results in the order of completion (as_completed).
gather_results_as_completed(tasks, order) ==
    [k \in 1..Len(order) |-> tasks[order[k]]]

\* Its results: one per task, in the order of the tasks, whatever the order
\* in which they finished.
gather_results(tasks, order) == [k \in 1..Len(tasks) |-> tasks[k]]

\* An error result without the "Error: " prefix.
result_content_bare(result) ==
    IF result.st = "exc" THEN result.val.text ELSE result.val

\* The content of the tool message for one result of gather.
result_content(result) ==
    IF result.st = "exc" THEN "Error: " \o result.val.text ELSE result.val

RECURSIVE add_results(_, _, _, _)
\* for tc, result in zip(response.tool_calls, results): context.add_tool_result(...)
add_results(ctx, tool_calls, results, k) ==
    IF k > Len(tool_calls) \/ k > Len(results) THEN ctx
    ELSE add_results(
            add_tool_result(ctx, tool_calls[k].id, tool_calls[k].name,
                            result_content(results[k])),
            tool_calls, results, k + 1)

\* _run_agent_loop from the return of gather to the next call_llm.
loop_gathered(S, f) ==
    LET fr == S.frames[f]
        results == gather_results(fr.tasks, fr.order)
    IN  [S EXCEPT
            !.frames[f].context = add_results(@, fr.response[1].tool_calls, results, 1),
            !.frames[f].order = <<>>,
            !.frames[f].pc = "await_llm",
            !.frames[f].llm = @ + 1,
            !.frames[f].rounds = @ + 1,
            !.event_log = record(@, "llm_call", fr.agent, f, fr.parent_call_id, EmptyDict)]

\* The loop of frame f wakes up from gather.
Gathered(f) ==
    /\ run.mode = "batch"
    /\ frames[f].pc = "gather"
    /\ gather_done(frames[f].tasks)
    /\ Apply(loop_gathered(State, f))
    /\ UNCHANGED <<adapter, debug, last, answered, router, context_obj, llm_response, anthropic, harness, log_obj>>

\* --------------------------------------------------------- streaming path
StreamEvent(type, agent_name, data) ==
    [type |-> type, agent_name |-> agent_name, data |-> data]

\* ProviderBackend.stream: the content as one chunk, if there is any.
stream_chunks(response) ==
    IF ContentOrEmpty(response.content) # "" THEN <<response.content[1]>> ELSE <<>>

\* async_run_stream / Runtime.execute_stream up to the first stream_llm.
ExecuteStream ==
    /\ run.status = "idle"
    /\ ~debug
    /\ LET call_id == Len(frames) + 1
       IN  /\ messages' = Append(messages,
                              Message("forward", "user", EntryAgent, EntryMessage, call_id))
           /\ frames' = Append(frames,
                              NewFrame(EntryAgent, EntryMessage, call_id, NoCall, 0))
           /\ run' = [run EXCEPT !.mode = "stream", !.status = "running", !.output = ""]
    /\ UNCHANGED <<adapter, debug, event_log, stream, last, answered, router, context_obj, llm_response, anthropic, harness, log_obj>>

\* yield event
stream_yield(S, event) == [S EXCEPT !.stream = Append(@, event)]

RECURSIVE forward_finish(_, _, _)
\* "async for sub_event in ...: yield sub_event; if sub_event.type ==
\* "finish": sub_result = ...", in every loop between frame g and the entry.
forward_finish(frs, g, output) ==
    LET p == frs[g].parent_call_id
    IN  IF p = NoCall THEN frs
        ELSE forward_finish([frs EXCEPT ![p].sub_result = output], p, output)

\* A finish event of frame f: every loop that forwards it (the ancestors of
\* f) takes its output as sub_result, and execute_stream takes it as output.
stream_finish(S, f, output) ==
    LET S1 == stream_yield(S, StreamEvent("finish", S.frames[f].agent,
                                          [output |-> output]))
    IN  [S1 EXCEPT !.frames = forward_finish(S.frames, f, output),
                   !.run = [S.run EXCEPT !.output = output]]

RECURSIVE unwind(_, _)
\* An exception leaving the generator of frame g and of every caller.
unwind(frs, g) ==
    LET p == frs[g].parent_call_id
        ended == [frs EXCEPT ![g] = EndFrame(frs[g], "raised", None)]
    IN  IF p = NoCall THEN ended ELSE unwind(ended, p)

\* An exception nobody catches, raised in frame f: it leaves every
\* generator up to the consumer of execute_stream.
stream_abort(S, f, exc) ==
    [S EXCEPT !.frames = unwind(S.frames, f),
              !.run = [S.run EXCEPT !.status = "raised", !.value = Some(exc)]]

\* _stream_agent_loop at tool call k of the response, up to its await.
stream_start(S, f, k) ==
    LET fr == S.frames[f]
        tc == fr.response[1].tool_calls[k]
    IN  IF is_call_agent(tc)
        THEN LET target_name == dict_get(tc.arguments, "agent_name", "")
                 msg == dict_get(tc.arguments, "message", "")
                 sub_call_id == Len(S.frames) + 1
             IN  IF target_name \notin RegisteredAgents
                 THEN stream_abort(S, f, Exc("RoutingError", RoutingErrorStr(target_name), None))
                 ELSE LET S1 == stream_yield(S,
                                   StreamEvent("agent_call", target_name,
                                       [from |-> fr.agent, message |-> truncate(msg)]))
                      IN  [S1 EXCEPT
                             !.messages = Append(@,
                                 Message("forward", fr.agent, target_name, msg, sub_call_id)),
                             !.frames = Append(
                                 [@ EXCEPT ![f].pc = "sub", ![f].idx = k,
                                           ![f].sub_result = ""],
                                 NewFrame(target_name, msg, sub_call_id, f, k))]
        ELSE IF tc.name \notin RegisteredTools
             THEN stream_abort(S, f, Exc("ToolError",
                                      ToolErrorStr(tc.name, "Tool not found"), None))
             ELSE LET S1 == stream_yield(S,
                               StreamEvent("tool_call", fr.agent,
                                   [tool_name |-> tc.name, arguments |-> tc.arguments]))
                  IN  [S1 EXCEPT !.frames[f].pc = "tool", !.frames[f].idx = k]

\* The "for tc in response.tool_calls" loop reaching position k: the next
\* tool call, or back to the top of "while True".
stream_next(S, f, k) ==
    IF k > Len(S.frames[f].response[1].tool_calls)
    THEN [S EXCEPT !.frames[f].pc = "await_llm", !.frames[f].idx = 0,
                   !.frames[f].llm = @ + 1, !.frames[f].rounds = @ + 1]
    ELSE stream_start(S, f, k)

\* A calling loop that takes the sub-agent's result without emitting
\* agent_return.
stream_end_silent(S, f, pc, output) ==
    LET fr == S.frames[f]
        p == fr.parent_call_id
        S1 == [S EXCEPT !.frames[f] = EndFrame(fr, pc, output)]
    IN  IF p = NoCall
        THEN [S1 EXCEPT
                !.messages = Append(@,
                    Message("return", fr.agent, "user", S1.run.output, f)),
                !.run = [S1.run EXCEPT !.status = "returned"]]
        ELSE LET pf == S1.frames[p]
                 tc == pf.response[1].tool_calls[pf.idx]
                 S2 == [S1 EXCEPT !.messages = Append(@,
                             Message("return", fr.agent, pf.agent, pf.sub_result, f))]
                 S3 == [S2 EXCEPT !.frames[p].context =
                            add_tool_result(@, tc.id, tc.name, pf.sub_result)]
             IN  stream_next(S3, p, pf.idx + 1)

\* The generator of frame f is exhausted (after its finish or error event):
\* execute_stream appends the return Message; a calling loop appends it,
\* yields agent_return, adds the tool result and goes on.
stream_end(S, f, pc, output) ==
    LET fr == S.frames[f]
        p == fr.parent_call_id
        S1 == [S EXCEPT !.frames[f] = EndFrame(fr, pc, output)]
    IN  IF p = NoCall
        THEN [S1 EXCEPT
                !.messages = Append(@,
                    Message("return", fr.agent, "user", S1.run.output, f)),
                !.run = [S1.run EXCEPT !.status = "returned"]]
        ELSE LET pf == S1.frames[p]
                 tc == pf.response[1].tool_calls[pf.idx]
                 S2 == stream_yield(
                         [S1 EXCEPT !.messages = Append(@,
                             Message("return", fr.agent, pf.agent, pf.sub_result, f))],
                         StreamEvent("agent_return", fr.agent,
                                     [result |-> truncate(pf.sub_result)]))
                 S3 == [S2 EXCEPT !.frames[p].context =
                            add_tool_result(@, tc.id, tc.name, pf.sub_result)]
             IN  stream_next(S3, p, pf.idx + 1)

RECURSIVE stream_tokens(_, _, _, _)
\* One token event per text chunk.
stream_tokens(S, agent, chunks, i) ==
    IF i > Len(chunks) THEN S
    ELSE stream_tokens(
            stream_yield(S, StreamEvent("token", agent, [text |-> chunks[i]])),
            agent, chunks, i + 1)

\* _stream_agent_loop from the end of stream_llm to the next await.
stream_response(S, f, response) ==
    LET fr == S.frames[f]
        S1 == [stream_tokens(S, fr.agent, stream_chunks(response), 1)
                  EXCEPT !.frames[f].response = Some(response)]
        finish_call == find_finish(response.tool_calls)
    IN  IF Len(response.tool_calls) = 0
        THEN stream_end(stream_finish(S1, f, text_output(response)), f,
                        "returned", Some(text_output(response)))
        ELSE IF finish_call # None
        THEN stream_end(stream_finish(S1, f, finish_output(finish_call[1])), f,
                        "returned", Some(finish_output(finish_call[1])))
        ELSE stream_next(
                [S1 EXCEPT !.frames[f].context =
                    add_assistant_tool_calls(@, response.tool_calls, response.content)],
                f, 1)

\* Router.stream_llm yields its chunks and a final LLMResponse to frame f.
StreamLLMReturn(f) ==
    /\ run.mode = "stream"
    /\ frames[f].pc = "await_llm"
    /\ \E response \in Answers(f) :
          /\ Apply(stream_response(State, f, response))
          /\ last' = Some([call_id |-> f, response |-> response])
    /\ answered' = answered + 1
    /\ UNCHANGED <<adapter, debug, router, context_obj, llm_response, anthropic, harness, log_obj>>

\* A loop that yields the error event and, without the return, goes back to
\* the top of "while True".
StreamLLMEmpty_retry(f) ==
    /\ run.mode = "stream"
    /\ frames[f].pc = "await_llm"
    /\ Apply(stream_yield(State, StreamEvent("error", frames[f].agent,
                                             [error |-> "No response from LLM"])))
    /\ answered' = answered + 1
    /\ UNCHANGED <<adapter, debug, last, router, context_obj, llm_response, anthropic, harness, log_obj>>

\* Router.stream_llm ends without an LLMResponse.
StreamLLMEmpty(f) ==
    /\ run.mode = "stream"
    /\ frames[f].pc = "await_llm"
    /\ Apply(stream_end(
                stream_yield(State, StreamEvent("error", frames[f].agent,
                                                [error |-> "No response from LLM"])),
                f, "error", None))
    /\ answered' = answered + 1
    /\ UNCHANGED <<adapter, debug, last, router, context_obj, llm_response, anthropic, harness, log_obj>>

\* Router.stream_llm raises a ProviderError.
StreamLLMRaise(f) ==
    /\ run.mode = "stream"
    /\ frames[f].pc = "await_llm"
    /\ Apply(stream_abort(State, f,
            Exc("ProviderError", ProviderErrorStr(ProviderName, ProviderFailure), None)))
    /\ answered' = answered + 1
    /\ UNCHANGED <<adapter, debug, last, router, context_obj, llm_response, anthropic, harness, log_obj>>

\* A loop that takes the next tool call without appending the result of
\* the one that is over.
stream_tool_done_unrecorded(S, f, result) ==
    stream_next(S, f, S.frames[f].idx + 1)

\* tool.execute is over in frame f: the result, or "Error: <exc>", is added
\* to the Context and the loop goes on.
stream_tool_done(S, f, result) ==
    LET fr == S.frames[f]
        tc == fr.response[1].tool_calls[fr.idx]
    IN  stream_next([S EXCEPT !.frames[f].context =
                        add_tool_result(@, tc.id, tc.name, result)],
                    f, fr.idx + 1)

StreamToolReturn(f) ==
    /\ run.mode = "stream"
    /\ frames[f].pc = "tool"
    /\ \E r \in ToolReturns : Apply(stream_tool_done(State, f, r))
    /\ UNCHANGED <<adapter, debug, last, answered, router, context_obj, llm_response, anthropic, harness, log_obj>>

\* A streaming loop without the try/except around tool.execute: the
\* callable's exception leaves the generator.
StreamToolRaise_abort(f) ==
    /\ run.mode = "stream"
    /\ frames[f].pc = "tool"
    /\ \E m \in ToolRaises :
          Apply(stream_abort(State, f,
                Exc("ToolError",
                    ToolErrorStr(frames[f].response[1].tool_calls[frames[f].idx].name, m),
                    Some(m))))
    /\ UNCHANGED <<adapter, debug, last, answered, router, context_obj, llm_response, anthropic, harness, log_obj>>

StreamToolRaise(f) ==
    /\ run.mode = "stream"
    /\ frames[f].pc = "tool"
    /\ \E m \in ToolRaises : Apply(stream_tool_done(State, f, "Error: " \o m))
    /\ UNCHANGED <<adapter, debug, last, answered, router, context_obj, llm_response, anthropic, harness, log_obj>>

\* ---------------------------------------------------------- adapter streams
\* What a stream generator yields: a text chunk or the final LLMResponse.
StrItem(text) == [kind |-> "str", val |-> text]
RespItem(response) == [kind |-> "resp", val |-> response]

\* The events of the vendor's response stream the Anthropic adapter reads:
\* the start of a tool_use or text block, text and input_json deltas (text
\* may be empty, JSON comes in parts), and events it ignores.
VendorEvents ==
    {[type |-> "content_block_start", index |-> 1, block |-> "tool_use",
      id |-> "tu1", name |-> "search", text |-> ""],
     [type |-> "content_block_start", index |-> 0, block |-> "text",
      id |-> "", name |-> "", text |-> ""],
     [type |-> "content_block_delta", index |-> 0, block |-> "text_delta",
      id |-> "", name |-> "", text |-> "a"],
     [type |-> "content_block_delta", index |-> 0, block |-> "text_delta",
      id |-> "", name |-> "", text |-> "b"],
     [type |-> "content_block_delta", index |-> 0, block |-> "text_delta",
      id |-> "", name |-> "", text |-> ""],
     [type |-> "content_block_delta", index |-> 1, block |-> "input_json_delta",
      id |-> "", name |-> "", text |-> "{\"query\":"],
     [type |-> "content_block_delta", index |-> 1, block |-> "input_json_delta",
      id |-> "", name |-> "", text |-> "\"q\"}"],
     [type |-> "message_stop", index |-> 0, block |-> "",
      id |-> "", name |-> "", text |-> ""]}

VendorStreams == UNION {[1..n -> VendorEvents] : n \in 0..MaxEvents}

\* json.loads on the input_json texts the vendor events can build: the
\* object, or None for a JSONDecodeError.
json_loads(text) ==
    IF text = "{\"query\":\"q\"}" THEN Some([query |-> "q"]) ELSE None

\* An assignment where the += belongs.
accumulate_last(acc, text) == text

\* accumulated_content += event.delta.text
accumulate(acc, text) == acc \o text

RECURSIVE parsed_calls(_, _)
\* for idx in sorted(tool_blocks): ... parsed_calls.append(ToolCall(...)),
\* over the indexes in `rest`.
parsed_calls(tool_blocks, rest) ==
    IF rest = {} THEN <<>>
    ELSE LET idx == CHOOSE i \in rest : \A j \in rest : i <= j
             tb == tool_blocks[idx]
             loaded == IF tb.input_json = "" THEN Some(EmptyDict)
                       ELSE json_loads(tb.input_json)
             arguments == IF loaded = None THEN EmptyDict ELSE loaded[1]
         IN  <<[id |-> tb.id, name |-> tb.name, arguments |-> arguments]>>
             \o parsed_calls(tool_blocks, rest \ {idx})

\* An adapter stream starts: the default one with the LLMResponse its call
\* returns, the Anthropic one with the vendor's event stream.
AdapterStarts ==
    {[IdleAdapter EXCEPT !.kind = "default", !.status = "running",
                         !.response = Some(r)] : r \in ResponsesA}
    \cup {[IdleAdapter EXCEPT !.kind = "anthropic", !.status = "running",
                              !.events = e] : e \in VendorStreams}

AdapterInit ==
    /\ debug = FALSE
    /\ event_log = None
    /\ messages = <<>>
    /\ frames = <<>>
    /\ run = [mode |-> "idle", status |-> "idle", value |-> None, output |-> ""]
    /\ stream = <<>>
    /\ last = None
    /\ answered = 0
    /\ adapter \in AdapterStarts
    /\ log_obj = IdleEventLog
    /\ harness = IdleHarness
    /\ anthropic = IdleAnthropic
    /\ llm_response = IdleResponse
    /\ context_obj = IdleContext
    /\ router = IdleRouter

\* ProviderBackend.stream: the content as one chunk if there is any, then
\* the response.
DefaultStream ==
    /\ adapter.kind = "default"
    /\ adapter.status = "running"
    /\ adapter' = [adapter EXCEPT
          !.status = "done",
          !.yielded = [i \in 1..Len(stream_chunks(adapter.response[1])) |->
                          StrItem(stream_chunks(adapter.response[1])[i])]
                      \o <<RespItem(adapter.response[1])>>]
    /\ UNCHANGED <<debug, event_log, messages, frames, run, stream, last, answered, router, context_obj, llm_response, anthropic, harness, log_obj>>

\* AnthropicBackend._stream_response: one iteration of
\* "async for event in response_stream".
anthropic_event(a, event) ==
    LET a1 == [a EXCEPT !.pos = @ + 1]
    IN  IF event.type = "content_block_start"
        THEN IF event.block = "tool_use"
             THEN [a1 EXCEPT !.tool_blocks =
                      [i \in DOMAIN a.tool_blocks \cup {event.index} |->
                          IF i = event.index
                          THEN [id |-> event.id, name |-> event.name, input_json |-> ""]
                          ELSE a.tool_blocks[i]]]
             ELSE a1
        ELSE IF event.type = "content_block_delta"
        THEN IF event.block = "text_delta"
             THEN [a1 EXCEPT
                     !.accumulated_content = accumulate(a.accumulated_content, event.text),
                     !.yielded = Append(a.yielded, StrItem(event.text))]
             ELSE IF event.block = "input_json_delta" /\ event.index \in DOMAIN a.tool_blocks
             THEN [a1 EXCEPT !.tool_blocks =
                      [i \in DOMAIN a.tool_blocks |->
                          IF i = event.index
                          THEN [a.tool_blocks[i] EXCEPT
                                   !.input_json = a.tool_blocks[i].input_json \o event.text]
                          ELSE a.tool_blocks[i]]]
             ELSE a1
        ELSE a1

AnthropicEvent ==
    /\ adapter.kind = "anthropic"
    /\ adapter.status = "running"
    /\ adapter.pos < Len(adapter.events)
    /\ adapter' = anthropic_event(adapter, adapter.events[adapter.pos + 1])
    /\ UNCHANGED <<debug, event_log, messages, frames, run, stream, last, answered, router, context_obj, llm_response, anthropic, harness, log_obj>>

\* AnthropicBackend._stream_response after the vendor's stream: a
\* ProviderError for a stream without text and tool blocks, else the final
\* LLMResponse.
anthropic_end(a) ==
    IF a.accumulated_content = "" /\ DOMAIN a.tool_blocks = {}
    THEN [a EXCEPT !.status = "raised"]
    ELSE [a EXCEPT
            !.status = "done",
            !.yielded = Append(a.yielded, RespItem(LLMResponse(
                IF a.accumulated_content = "" THEN None ELSE Some(a.accumulated_content),
                Some(parsed_calls(a.tool_blocks, DOMAIN a.tool_blocks)))))]

AnthropicEnd ==
    /\ adapter.kind = "anthropic"
    /\ adapter.status = "running"
    /\ adapter.pos = Len(adapter.events)
    /\ adapter' = anthropic_end(adapter)
    /\ UNCHANGED <<debug, event_log, messages, frames, run, stream, last, answered, router, context_obj, llm_response, anthropic, harness, log_obj>>

AdapterNext ==
    \/ DefaultStream
    \/ AnthropicEvent
    \/ AnthropicEnd

AdapterSpec == AdapterInit /\ [][AdapterNext]_vars

\* ------------------------------------------------------------------ router
\* A Python dict keeps its keys in insertion order; assigning to a key that
\* is present replaces the value in place.
odict_has(d, k) == \E i \in 1..Len(d) : d[i].key = k

odict_get(d, k) == d[CHOOSE i \in 1..Len(d) : d[i].key = k].value

odict_set(d, k, v) ==
    IF odict_has(d, k)
    THEN [i \in 1..Len(d) |-> IF d[i].key = k THEN [key |-> k, value |-> v] ELSE d[i]]
    ELSE Append(d, [key |-> k, value |-> v])

odict_values(d) == [i \in 1..Len(d) |-> d[i].value]

\* {x.name: x for x in objs}
RECURSIVE by_name(_)
by_name(objs) ==
    IF objs = <<>> THEN <<>>
    ELSE odict_set(by_name(SubSeq(objs, 1, Len(objs) - 1)),
                   objs[Len(objs)].name, objs[Len(objs)])

\* Tool(func) for a function of one str parameter without default.
Tool(name, description, param) ==
    [name |-> name, description |-> description,
     parameters |-> [type |-> "object",
                     properties |-> (param :> [type |-> "string"]),
                     required |-> <<param>>]]

to_schema(tool) ==
    [name |-> tool.name, description |-> tool.description,
     parameters |-> tool.parameters]

\* The tools a Router may be built with: two of them share a name, one has
\* the name of a built-in.
ToolPool ==
    {Tool("search", "Search the web.", "query"),
     Tool("search", "Search again.", "q"),
     Tool("read_file", "Read a file.", "path"),
     Tool("finish", "", "message")}

RECURSIVE ListsOver(_, _)
ListsOver(S, n) ==
    IF n = 0 THEN {<<>>}
    ELSE LET shorter == ListsOver(S, n - 1)
         IN  shorter \cup {Append(l, x) : l \in {m \in shorter : Len(m) = n - 1}, x \in S}

\* Agents by name with their provider name ("D" names a provider that is
\* not registered), and providers with their kind (two of kind openai).
RouterAgents ==
    <<[name |-> "A", provider |-> "openai"], [name |-> "B", provider |-> "oa2"],
      [name |-> "C", provider |-> "claude"], [name |-> "D", provider |-> "missing"]>>

RouterProviders ==
    <<[name |-> "openai", kind |-> "openai"], [name |-> "oa2", kind |-> "openai"],
      [name |-> "claude", kind |-> "anthropic"]>>

\* Router.__init__
Router(agents, tools, providers) ==
    [agents |-> by_name(agents), tools |-> by_name(tools),
     providers |-> by_name(providers), backends |-> <<>>]

CallAgentSchema ==
    [name |-> CALL_AGENT,
     description |-> "Call another agent. The agent will process your message "
                     \o "and return a result when done.",
     parameters |->
        [type |-> "object",
         properties |->
            [agent_name |-> [type |-> "string",
                             description |-> "Name of the agent to call"],
             message |-> [type |-> "string",
                          description |-> "Message to send to the agent"]],
         required |-> <<"agent_name", "message">>]]

FinishSchema ==
    [name |-> FINISH,
     description |-> "Finish the current task and return a result to the caller. "
                     \o "The caller may be a user or another agent.",
     parameters |->
        [type |-> "object",
         properties |->
            [message |-> [type |-> "string",
                          description |-> "Result message to return"]],
         required |-> <<"message">>]]

\* The two built-in schemas in the other order.
build_tool_schemas_finish_first(r, current_agent) ==
    LET values == odict_values(r.tools)
    IN  [i \in 1..Len(values) |-> to_schema(values[i])]
        \o <<FinishSchema, CallAgentSchema>>

\* Router.build_tool_schemas
build_tool_schemas(r, current_agent) ==
    LET values == odict_values(r.tools)
    IN  [i \in 1..Len(values) |-> to_schema(values[i])]
        \o <<CallAgentSchema, FinishSchema>>

\* providers.get_backend: a new adapter object at every invocation; the
\* object is known by the number of the invocation that made it.
get_backend(created, kind) ==
    [created |-> Append(created, kind), backend |-> Len(created) + 1]

\* A lookup that asks the factory every time.
Router_get_backend_uncached(r, created, kind) ==
    LET made == get_backend(created, kind)
    IN  [obj |-> [r EXCEPT !.backends = odict_set(r.backends, kind, made.backend)],
         created |-> made.created,
         backend |-> made.backend]

\* Router._get_backend
Router_get_backend(r, created, kind) ==
    IF ~odict_has(r.backends, kind)
    THEN LET made == get_backend(created, kind)
         IN  [obj |-> [r EXCEPT !.backends = odict_set(r.backends, kind, made.backend)],
              created |-> made.created,
              backend |-> made.backend]
    ELSE [obj |-> r, created |-> created, backend |-> odict_get(r.backends, kind)]

RouterStarts ==
    {[IdleRouter EXCEPT !.obj = Some(Router(RouterAgents, tools, RouterProviders))] :
        tools \in ListsOver(ToolPool, MaxTools)}

RouterInit ==
    /\ debug = FALSE
    /\ event_log = None
    /\ messages = <<>>
    /\ frames = <<>>
    /\ run = [mode |-> "idle", status |-> "idle", value |-> None, output |-> ""]
    /\ stream = <<>>
    /\ last = None
    /\ answered = 0
    /\ adapter = IdleAdapter
    /\ log_obj = IdleEventLog
    /\ harness = IdleHarness
    /\ anthropic = IdleAnthropic
    /\ llm_response = IdleResponse
    /\ context_obj = IdleContext
    /\ router \in RouterStarts

BuildToolSchemas(current_agent) ==
    /\ router.obj # None
    /\ router' = [router EXCEPT
          !.schemas = Some(build_tool_schemas(router.obj[1], current_agent))]
    /\ UNCHANGED <<debug, event_log, messages, frames, run, stream, last, answered, adapter, context_obj, llm_response, anthropic, harness, log_obj>>

\* Router.call_llm up to "await backend.call(...)": no await comes before
\* it, so the lookup and the cache update are one step of the event loop.
CallLLM(a) ==
    /\ router.obj # None
    /\ router.calls < MaxRouterCalls
    /\ LET r == router.obj[1]
           agent == r.agents[a].value
       IN  IF ~odict_has(r.providers, agent.provider)
           THEN router' = [router EXCEPT
                   !.calls = @ + 1,
                   !.raised = Some(Exc("ProviderError",
                                       ProviderErrorStr(agent.provider, "Provider not found"),
                                       None))]
           ELSE LET provider == odict_get(r.providers, agent.provider)
                    got == Router_get_backend(r, router.created, provider.kind)
                IN  router' = [router EXCEPT
                        !.calls = @ + 1,
                        !.obj = Some(got.obj),
                        !.created = got.created,
                        !.used = Append(@, [agent |-> agent.name, kind |-> provider.kind,
                                            backend |-> got.backend]),
                        !.pending = @ \cup {Len(router.used) + 1}]
    /\ UNCHANGED <<debug, event_log, messages, frames, run, stream, last, answered, adapter, context_obj, llm_response, anthropic, harness, log_obj>>

\* "await backend.call(...)" of call i is over (it returned or raised).
BackendCallEnds(i) ==
    /\ i \in router.pending
    /\ router' = [router EXCEPT !.pending = @ \ {i}]
    /\ UNCHANGED <<debug, event_log, messages, frames, run, stream, last, answered, adapter, context_obj, llm_response, anthropic, harness, log_obj>>

RouterNext ==
    \/ \E name \in {"A", "B", "nobody"} : BuildToolSchemas(name)
    \/ \E a \in 1..Len(RouterAgents) : CallLLM(a)
    \/ \E i \in 1..MaxRouterCalls : BackendCallEnds(i)

RouterSpec == RouterInit /\ [][RouterNext]_vars

\* ----------------------------------------------------------------- context
\* Python lists are objects: lists[i] is the content of list object i, and
\* two names that hold the same i see each other's changes.
\* Context.__init__: self._messages is a new empty list.
Context ==
    [IdleContext EXCEPT !.lists = <<(<<>>)>>, !.internal = 1]

\* A messages property that hands out self._messages itself.
Context_messages_alias(c) == [lists |-> c.lists, list |-> c.internal]

\* Context.messages: list(self._messages), a new list object with the same
\* elements.
Context_messages(c) ==
    [lists |-> Append(c.lists, c.lists[c.internal]), list |-> Len(c.lists) + 1]

\* The add_* calls made on the Context under observation.
ContextAdds ==
    {[op |-> "add_user", content |-> Some("hello")],
     [op |-> "add_assistant_text", content |-> Some("answer")],
     [op |-> "add_assistant_tool_calls", content |-> None],
     [op |-> "add_tool_result", content |-> Some("res")]}

ContextAdd(ctx, a) ==
    CASE a.op = "add_user" -> add_user(ctx, a.content[1])
      [] a.op = "add_assistant_text" -> add_assistant_text(ctx, a.content[1])
      [] a.op = "add_assistant_tool_calls" ->
            add_assistant_tool_calls(
                ctx, <<[id |-> TcId(1), name |-> "search", arguments |-> EmptyDict]>>,
                a.content)
      [] a.op = "add_tool_result" -> add_tool_result(ctx, TcId(1), "search", a.content[1])

\* What the holder of a list may do to it: append an element, remove one,
\* reverse the order.
ListMutations == {"append", "pop", "reverse"}

ListMutate(l, m) ==
    CASE m = "append" -> Append(l, UserMsg("extra"))
      [] m = "pop" -> IF l = <<>> THEN l ELSE SubSeq(l, 1, Len(l) - 1)
      [] m = "reverse" -> [i \in 1..Len(l) |-> l[Len(l) + 1 - i]]

ContextInit ==
    /\ debug = FALSE
    /\ event_log = None
    /\ messages = <<>>
    /\ frames = <<>>
    /\ run = [mode |-> "idle", status |-> "idle", value |-> None, output |-> ""]
    /\ stream = <<>>
    /\ last = None
    /\ answered = 0
    /\ adapter = IdleAdapter
    /\ log_obj = IdleEventLog
    /\ harness = IdleHarness
    /\ anthropic = IdleAnthropic
    /\ llm_response = IdleResponse
    /\ router = IdleRouter
    /\ context_obj = Context

\* ctx.add_user / add_assistant_text / add_assistant_tool_calls /
\* add_tool_result: append to self._messages.
ContextAddMessage(a) ==
    /\ context_obj.internal # 0
    /\ Len(context_obj.added) < MaxAdds
    /\ context_obj' = [context_obj EXCEPT
          !.lists[context_obj.internal] = ContextAdd(@, a),
          !.added = ContextAdd(@, a)]
    /\ UNCHANGED <<debug, event_log, messages, frames, run, stream, last, answered, adapter, router, llm_response, anthropic, harness, log_obj>>

\* msgs = ctx.messages; "taken" keeps what the list held when handed out.
ContextSnapshot ==
    /\ context_obj.internal # 0
    /\ Len(context_obj.snapshots) < MaxSnapshots
    /\ LET got == Context_messages(context_obj)
       IN  context_obj' = [context_obj EXCEPT
              !.lists = got.lists,
              !.snapshots = Append(@, [list |-> got.list,
                                       taken |-> got.lists[got.list],
                                       after |-> Len(context_obj.added)])]
    /\ UNCHANGED <<debug, event_log, messages, frames, run, stream, last, answered, adapter, router, llm_response, anthropic, harness, log_obj>>

\* The holder of snapshot s changes the list it was given.
SnapshotMutate(s, m) ==
    /\ s \in 1..Len(context_obj.snapshots)
    /\ context_obj.mutations < MaxMutations
    /\ context_obj' = [context_obj EXCEPT
          !.lists[context_obj.snapshots[s].list] = ListMutate(@, m),
          !.mutations = @ + 1]
    /\ UNCHANGED <<debug, event_log, messages, frames, run, stream, last, answered, adapter, router, llm_response, anthropic, harness, log_obj>>

ContextNext ==
    \/ \E a \in ContextAdds : ContextAddMessage(a)
    \/ ContextSnapshot
    \/ \E s \in 1..MaxSnapshots, m \in ListMutations : SnapshotMutate(s, m)

ContextSpec == ContextInit /\ [][ContextNext]_vars

\* --------------------------------------------------------------- event log
\* EventLog.__init__: self._events is a new empty list (lists[i] is the
\* content of list object i, as for a Context).
EventLog ==
    [IdleEventLog EXCEPT !.lists = <<(<<>>)>>, !.internal = 1]

\* EventLog.record: self._events.append(event).
EventLog_record(l, event) ==
    [l EXCEPT !.lists[l.internal] = Append(@, event)]

\* EventLog.events: list(self._events), a new list object with the same
\* elements.
EventLog_events(l) ==
    [lists |-> Append(l.lists, l.lists[l.internal]), list |-> Len(l.lists) + 1]

\* [e for e in result if ...]: a new list object holding "kept", the
\* elements of the list it was made from that pass the test.
list_comprehension(h, kept) ==
    [lists |-> Append(h.lists, kept), list |-> Len(h.lists) + 1]

\* EventLog.filter: result starts as self._events itself and is replaced by
\* a new list for each argument that is given.
EventLog_filter(l, agent_name, event_type) ==
    LET result == [lists |-> l.lists, list |-> l.internal]
        by_agent == IF agent_name # None
                    THEN list_comprehension(
                             result,
                             SelectSeq(result.lists[result.list],
                                       LAMBDA e : e.agent_name = agent_name[1]))
                    ELSE result
        by_type == IF event_type # None
                   THEN list_comprehension(
                            by_agent,
                            SelectSeq(by_agent.lists[by_agent.list],
                                      LAMBDA e : e.event_type = event_type[1]))
                   ELSE by_agent
    IN  by_type

\* EventLog.__iter__ and __len__: over self._events.
EventLog_iter(l) == l.lists[l.internal]

EventLog_len(l) == Len(l.lists[l.internal])

\* The events recorded on the EventLog under observation.
LogEvents ==
    {AgentEvent("agent_call", "a", "c1", None, EmptyDict),
     AgentEvent("finish", "a", "c1", None, EmptyDict),
     AgentEvent("agent_call", "b", "c2", Some("c1"), EmptyDict)}

\* The arguments filter is called with: each one given or left out.
FilterAgentNames == {None, Some("a")}

FilterEventTypes == {None, Some("finish")}

\* What the holder of a list of events may do to it.
EventListMutate(l, m) ==
    CASE m = "append" -> Append(l, AgentEvent("error", "x", "c9", None, EmptyDict))
      [] m = "pop" -> IF l = <<>> THEN l ELSE SubSeq(l, 1, Len(l) - 1)
      [] m = "reverse" -> [i \in 1..Len(l) |-> l[Len(l) + 1 - i]]

LogInit ==
    /\ debug = FALSE
    /\ event_log = None
    /\ messages = <<>>
    /\ frames = <<>>
    /\ run = [mode |-> "idle", status |-> "idle", value |-> None, output |-> ""]
    /\ stream = <<>>
    /\ last = None
    /\ answered = 0
    /\ adapter = IdleAdapter
    /\ harness = IdleHarness
    /\ anthropic = IdleAnthropic
    /\ llm_response = IdleResponse
    /\ router = IdleRouter
    /\ context_obj = IdleContext
    /\ log_obj = EventLog

\* log.record(e); "recorded" keeps the events in the order of the calls.
LogRecord(e) ==
    /\ log_obj.internal # 0
    /\ Len(log_obj.recorded) < MaxRecords
    /\ log_obj' = [EventLog_record(log_obj, e) EXCEPT !.recorded = Append(@, e)]
    /\ UNCHANGED <<debug, event_log, messages, frames, run, stream, last, answered, adapter, router, context_obj, llm_response, anthropic, harness>>

\* got = log.events
LogReadEvents ==
    /\ log_obj.internal # 0
    /\ Len(log_obj.handed) < MaxReads
    /\ LET got == EventLog_events(log_obj)
       IN  log_obj' = [log_obj EXCEPT
              !.lists = got.lists,
              !.handed = Append(@, [list |-> got.list, via |-> "events"])]
    /\ UNCHANGED <<debug, event_log, messages, frames, run, stream, last, answered, adapter, router, context_obj, llm_response, anthropic, harness>>

\* got = log.filter(agent_name, event_type); "args" counts the arguments
\* that were given.
LogFilter(agent_name, event_type) ==
    /\ log_obj.internal # 0
    /\ Len(log_obj.handed) < MaxReads
    /\ LET got == EventLog_filter(log_obj, agent_name, event_type)
       IN  log_obj' = [log_obj EXCEPT
              !.lists = got.lists,
              !.handed = Append(@, [list |-> got.list,
                                    via |-> IF agent_name = None /\ event_type = None
                                            THEN "filter()" ELSE "filter(...)"])]
    /\ UNCHANGED <<debug, event_log, messages, frames, run, stream, last, answered, adapter, router, context_obj, llm_response, anthropic, harness>>

\* The holder of the list handed out by read s changes it.
LogMutate(s, m) ==
    /\ s \in 1..Len(log_obj.handed)
    /\ log_obj.mutations < MaxMutations
    /\ log_obj' = [log_obj EXCEPT
          !.lists[log_obj.handed[s].list] = EventListMutate(@, m),
          !.mutations = @ + 1]
    /\ UNCHANGED <<debug, event_log, messages, frames, run, stream, last, answered, adapter, router, context_obj, llm_response, anthropic, harness>>

\* list(log) and len(log), kept in "seen" with the number of record calls
\* made before.
LogIterate ==
    /\ log_obj.internal # 0
    /\ LET now == Some([events |-> EventLog_iter(log_obj),
                        len |-> EventLog_len(log_obj),
                        after |-> Len(log_obj.recorded)])
       IN  /\ log_obj.seen # now
           /\ log_obj' = [log_obj EXCEPT !.seen = now]
    /\ UNCHANGED <<debug, event_log, messages, frames, run, stream, last, answered, adapter, router, context_obj, llm_response, anthropic, harness>>

LogNext ==
    \/ \E e \in LogEvents : LogRecord(e)
    \/ LogReadEvents
    \/ \E agent_name \in FilterAgentNames, event_type \in FilterEventTypes :
          LogFilter(agent_name, event_type)
    \/ \E s \in 1..MaxReads, m \in ListMutations : LogMutate(s, m)
    \/ LogIterate

LogSpec == LogInit /\ [][LogNext]_vars

\* ------------------------------------------------------ reasoning markup
\* _REASONING_TAG_RE: <(think|thinking|reason|reasoning)>.*?(?:</\1>|$)
\* with re.DOTALL.  Positions are 1-based; a match "ends at q" when q is
\* the position of the first character after it.
ReasoningTags == <<"think", "thinking", "reason", "reasoning">>

starts_at(s, p, prefix) ==
    /\ p + Len(prefix) - 1 <= Len(s)
    /\ SubSeq(s, p, p + Len(prefix) - 1) = prefix

\* "$" without re.MULTILINE: the end of the string, or just before a
\* newline that is its last character.
at_dollar(s, q) ==
    \/ q = Len(s) + 1
    \/ q = Len(s) /\ SubSeq(s, q, q) = "\n"

\* ".*?(?:</tag>|$)" from q on: the shortest stretch that is followed by
\* the closing tag (which is consumed) or by "$".
RECURSIVE match_end(_, _, _)
match_end(s, q, tag) ==
    IF starts_at(s, q, "</" \o tag \o ">") THEN q + Len(tag) + 3
    ELSE IF at_dollar(s, q) THEN q
    ELSE match_end(s, q + 1, tag)

\* The pattern tried at p: where the match ends, or 0 without a match.
match_at(s, p) ==
    LET opened == {t \in 1..Len(ReasoningTags) :
                      starts_at(s, p, "<" \o ReasoningTags[t] \o ">")}
    IN  IF opened = {} THEN 0
        ELSE LET t == CHOOSE t \in opened : \A u \in opened : t <= u
             IN  match_end(s, p + Len(ReasoningTags[t]) + 2, ReasoningTags[t])

\* _REASONING_TAG_RE.sub("", s) from position p on.
RECURSIVE re_sub(_, _)
re_sub(s, p) ==
    IF p > Len(s) THEN ""
    ELSE IF match_at(s, p) # 0 THEN re_sub(s, match_at(s, p))
    ELSE SubSeq(s, p, p) \o re_sub(s, p + 1)

Whitespace == {" ", "\n", "\t"}

\* str.strip()
RECURSIVE strip(_)
strip(s) ==
    IF s = "" THEN s
    ELSE IF SubSeq(s, 1, 1) \in Whitespace THEN strip(SubSeq(s, 2, Len(s)))
    ELSE IF SubSeq(s, Len(s), Len(s)) \in Whitespace THEN strip(SubSeq(s, 1, Len(s) - 1))
    ELSE s

content_outside_reasoning(content) == strip(re_sub(content, 1))

\* A property that hands back the empty string as it is.
content_without_reasoning_keep_empty(response) ==
    IF response.content = None THEN None
    ELSE Some(content_outside_reasoning(response.content[1]))

\* LLMResponse.content_without_reasoning
content_without_reasoning(response) ==
    IF response.content = None THEN None
    ELSE LET result == content_outside_reasoning(response.content[1])
         IN  IF result = "" THEN None ELSE Some(result)

\* What an LLM's content is made of: reasoning tags, text, whitespace.
ContentPieces ==
    {"<think>", "</think>", "<thinking>", "</thinking>", "a", " ", "\n"}

RECURSIVE JoinParts(_)
JoinParts(parts) ==
    IF parts = <<>> THEN "" ELSE parts[1] \o JoinParts(Tail(parts))

ResponseStarts ==
    {[IdleResponse EXCEPT !.given = None,
                          !.response = Some(LLMResponse(None, tcs))] :
        tcs \in {None, Some(<<[id |-> TcId(1), name |-> "search",
                                arguments |-> EmptyDict]>>)}}
    \cup
    {[IdleResponse EXCEPT !.parts = parts,
                          !.given = Some(JoinParts(parts)),
                          !.response = Some(LLMResponse(Some(JoinParts(parts)), tcs))] :
        parts \in ListsOver(ContentPieces, MaxParts),
        tcs \in {None, Some(<<[id |-> TcId(1), name |-> "search",
                                arguments |-> EmptyDict]>>)}}

ResponseInit ==
    /\ debug = FALSE
    /\ event_log = None
    /\ messages = <<>>
    /\ frames = <<>>
    /\ run = [mode |-> "idle", status |-> "idle", value |-> None, output |-> ""]
    /\ stream = <<>>
    /\ last = None
    /\ answered = 0
    /\ adapter = IdleAdapter
    /\ log_obj = IdleEventLog
    /\ harness = IdleHarness
    /\ anthropic = IdleAnthropic
    /\ router = IdleRouter
    /\ context_obj = IdleContext
    /\ llm_response \in ResponseStarts

\* response.content_without_reasoning is read.
ReadWithoutReasoning ==
    /\ llm_response.response # None
    /\ llm_response.read = None
    /\ llm_response' = [llm_response EXCEPT
          !.read = Some(content_without_reasoning(llm_response.response[1]))]
    /\ UNCHANGED <<debug, event_log, messages, frames, run, stream, last, answered, adapter, router, context_obj, anthropic, harness, log_obj>>

\* context.add_assistant_tool_calls(response.tool_calls, response.content)
AddResponseToolCalls ==
    /\ llm_response.response # None
    /\ llm_response.response[1].tool_calls # <<>>
    /\ llm_response.context = <<>>
    /\ llm_response' = [llm_response EXCEPT
          !.context = add_assistant_tool_calls(
                          @, llm_response.response[1].tool_calls,
                          llm_response.response[1].content)]
    /\ UNCHANGED <<debug, event_log, messages, frames, run, stream, last, answered, adapter, router, context_obj, anthropic, harness, log_obj>>

\* context.add_assistant_text(response.content)
AddResponseText ==
    /\ llm_response.response # None
    /\ llm_response.response[1].content # None
    /\ llm_response.context = <<>>
    /\ llm_response' = [llm_response EXCEPT
          !.context = add_assistant_text(@, llm_response.response[1].content[1])]
    /\ UNCHANGED <<debug, event_log, messages, frames, run, stream, last, answered, adapter, router, context_obj, anthropic, harness, log_obj>>

ResponseNext ==
    \/ ReadWithoutReasoning
    \/ AddResponseToolCalls
    \/ AddResponseText

ResponseSpec == ResponseInit /\ [][ResponseNext]_vars

\* Content in which a reasoning block may stand between the two halves of
\* an opening tag, so that removing the block brings the halves together.
SplitTagPieces == ContentPieces \cup {"<th", "ink>"}

SplitTagStarts ==
    {[IdleResponse EXCEPT !.parts = parts,
                          !.given = Some(JoinParts(parts)),
                          !.response = Some(LLMResponse(Some(JoinParts(parts)), tcs))] :
        parts \in ListsOver(SplitTagPieces, MaxParts),
        tcs \in {None, Some(<<[id |-> TcId(1), name |-> "search",
                                arguments |-> EmptyDict]>>)}}

SplitTagInit ==
    /\ debug = FALSE
    /\ event_log = None
    /\ messages = <<>>
    /\ frames = <<>>
    /\ run = [mode |-> "idle", status |-> "idle", value |-> None, output |-> ""]
    /\ stream = <<>>
    /\ last = None
    /\ answered = 0
    /\ adapter = IdleAdapter
    /\ log_obj = IdleEventLog
    /\ harness = IdleHarness
    /\ anthropic = IdleAnthropic
    /\ router = IdleRouter
    /\ context_obj = IdleContext
    /\ llm_response \in SplitTagStarts

SplitTagSpec == SplitTagInit /\ [][ResponseNext]_vars

\* ------------------------------------------------- anthropic: max_tokens
PROBE_MAX_TOKENS == 999999999
DEFAULT_MAX_TOKENS == 8192

AnthropicModel == "claude-x"
AnthropicProvider == "claude"

Digits == <<"0", "1", "2", "3", "4", "5", "6", "7", "8", "9">>

is_digit(c) == \E d \in 1..10 : Digits[d] = c

\* \w of the regular expressions, for the characters of the error texts.
is_word_char(c) ==
    \/ is_digit(c)
    \/ c = "_"
    \/ \E i \in 1..26 : c = SubSeq("abcdefghijklmnopqrstuvwxyz", i, i)
    \/ \E i \in 1..26 : c = SubSeq("ABCDEFGHIJKLMNOPQRSTUVWXYZ", i, i)

\* The position after the longest run of digits that starts at p.
RECURSIVE digits_end(_, _)
digits_end(s, p) ==
    IF p <= Len(s) /\ is_digit(SubSeq(s, p, p)) THEN digits_end(s, p + 1) ELSE p

\* The position after the longest run of whitespace that starts at p.
RECURSIVE spaces_end(_, _)
spaces_end(s, p) ==
    IF p <= Len(s) /\ SubSeq(s, p, p) \in Whitespace THEN spaces_end(s, p + 1) ELSE p

\* int(digits)
RECURSIVE to_int(_)
to_int(digits) ==
    IF digits = "" THEN 0
    ELSE 10 * to_int(SubSeq(digits, 1, Len(digits) - 1))
         + (CHOOSE d \in 1..10 : Digits[d] = SubSeq(digits, Len(digits), Len(digits))) - 1

\* str.lower()
RECURSIVE lower(_)
lower(s) ==
    IF s = "" THEN ""
    ELSE LET c == SubSeq(s, 1, 1)
             up == {i \in 1..26 : c = SubSeq("ABCDEFGHIJKLMNOPQRSTUVWXYZ", i, i)}
         IN  (IF up = {} THEN c
              ELSE LET i == CHOOSE i \in up : TRUE
                   IN  SubSeq("abcdefghijklmnopqrstuvwxyz", i, i))
             \o lower(SubSeq(s, 2, Len(s)))

\* sub in s
contains(s, sub) == \E p \in 1..Len(s) : starts_at(s, p, sub)

\* _MAX_TOKENS_RE = "> (\d+),": where group 1 of a match at p begins.
max_tokens_re_at(s, p) ==
    /\ starts_at(s, p, "> ")
    /\ digits_end(s, p + 2) > p + 2
    /\ starts_at(s, digits_end(s, p + 2), ",")

\* _MAX_TOKENS_FALLBACK_RE = "\bis\s+(\d+)": a match at p.
fallback_re_at(s, p) ==
    /\ starts_at(s, p, "is")
    /\ (p = 1 \/ ~is_word_char(SubSeq(s, p - 1, p - 1)))
    /\ spaces_end(s, p + 2) > p + 2
    /\ digits_end(s, spaces_end(s, p + 2)) > spaces_end(s, p + 2)

\* _parse_max_tokens_from_error: group 1 of the leftmost match of the first
\* pattern, else of the second, else None.
parse_max_tokens_from_error(error_msg) ==
    LET ms == {p \in 1..Len(error_msg) : max_tokens_re_at(error_msg, p)}
        fs == {p \in 1..Len(error_msg) : fallback_re_at(error_msg, p)}
    IN  IF ms # {}
        THEN LET p == CHOOSE p \in ms : \A q \in ms : p <= q
             IN  Some(to_int(SubSeq(error_msg, p + 2, digits_end(error_msg, p + 2) - 1)))
        ELSE IF fs # {}
        THEN LET p == CHOOSE p \in fs : \A q \in fs : p <= q
                 d == spaces_end(error_msg, p + 2)
             IN  Some(to_int(SubSeq(error_msg, d, digits_end(error_msg, d) - 1)))
        ELSE None

\* What the vendor's SDK may raise for a request: str(exc).
VendorErrors ==
    {"max_tokens: 999999999 > 64000, which is the maximum allowed",
     "max_tokens limit is 4096",
     "MAX_TOKENS too large",
     "rate limit is 5 per minute",
     "input > 100, too long",
     "this 7 failed",
     "overloaded"}

\* An except branch that retries with the default whatever the error is.
first_error_always_retry(a, error_str) ==
    [a EXCEPT
        !.errors = Append(@, error_str),
        !.cached_at_error = AnthropicModel \in DOMAIN a.cache,
        !.requests = Append(@, DEFAULT_MAX_TOKENS),
        !.pc = "retry"]

\* The except branch of the first request (anthropic.py:97-119), up to the
\* await of the second request.
first_error(a, error_str) ==
    LET seen == [a EXCEPT !.errors = Append(@, error_str),
                          !.cached_at_error = AnthropicModel \in DOMAIN a.cache]
        failed == [seen EXCEPT
                      !.pc = "raised",
                      !.raised = Some(Exc("ProviderError",
                                          ProviderErrorStr(AnthropicProvider, error_str),
                                          Some(error_str)))]
        resolved == parse_max_tokens_from_error(error_str)
    IN  IF a.max_output_tokens # None \/ AnthropicModel \in DOMAIN a.cache
        THEN failed
        ELSE IF resolved = None
        THEN IF ~contains(lower(error_str), "max_tokens")
             THEN failed
             ELSE [seen EXCEPT !.requests = Append(@, DEFAULT_MAX_TOKENS),
                               !.pc = "retry"]
        ELSE [seen EXCEPT !.cache = (AnthropicModel :> resolved[1]),
                          !.requests = Append(@, resolved[1]),
                          !.pc = "retry"]

AnthropicStarts ==
    {[IdleAnthropic EXCEPT !.max_output_tokens = m, !.cache = c, !.pc = "start",
                           !.calls = 1] :
        m \in {None, Some(4096)},
        c \in {<<>>, (AnthropicModel :> 64000), (AnthropicModel :> PROBE_MAX_TOKENS)}}

AnthropicInit ==
    /\ debug = FALSE
    /\ event_log = None
    /\ messages = <<>>
    /\ frames = <<>>
    /\ run = [mode |-> "idle", status |-> "idle", value |-> None, output |-> ""]
    /\ stream = <<>>
    /\ last = None
    /\ answered = 0
    /\ adapter = IdleAdapter
    /\ log_obj = IdleEventLog
    /\ harness = IdleHarness
    /\ router = IdleRouter
    /\ context_obj = IdleContext
    /\ llm_response = IdleResponse
    /\ anthropic \in AnthropicStarts

\* _stream_response up to the await of the first request.
AnthropicRequest ==
    /\ anthropic.pc = "start"
    /\ anthropic' = [anthropic EXCEPT
          !.requests = <<IF anthropic.max_output_tokens # None
                         THEN anthropic.max_output_tokens[1]
                         ELSE dict_get(anthropic.cache, AnthropicModel, PROBE_MAX_TOKENS)>>,
          !.pc = "first"]
    /\ UNCHANGED <<debug, event_log, messages, frames, run, stream, last, answered, adapter, router, context_obj, llm_response, harness, log_obj>>

\* While this call awaits its first request, another call of the same
\* model discovers the limit and stores it in the module's cache.
AnthropicOtherCallCaches ==
    /\ anthropic.pc = "first"
    /\ AnthropicModel \notin DOMAIN anthropic.cache
    /\ anthropic' = [anthropic EXCEPT !.cache = (AnthropicModel :> 64000)]
    /\ UNCHANGED <<debug, event_log, messages, frames, run, stream, last, answered, adapter, router, context_obj, llm_response, harness, log_obj>>

\* The first request raises.
AnthropicFirstFails(error_str) ==
    /\ anthropic.pc = "first"
    /\ anthropic' = first_error(anthropic, error_str)
    /\ UNCHANGED <<debug, event_log, messages, frames, run, stream, last, answered, adapter, router, context_obj, llm_response, harness, log_obj>>

\* The second request raises.
AnthropicRetryFails(error_str) ==
    /\ anthropic.pc = "retry"
    /\ anthropic' = [anthropic EXCEPT
          !.errors = Append(@, error_str),
          !.pc = "raised",
          !.raised = Some(Exc("ProviderError",
                              ProviderErrorStr(AnthropicProvider, error_str),
                              Some(error_str)))]
    /\ UNCHANGED <<debug, event_log, messages, frames, run, stream, last, answered, adapter, router, context_obj, llm_response, harness, log_obj>>

\* A request is answered with a response stream, and the stream is read to
\* its end: the probe value is cached when it was accepted, and a stream
\* without text and tool blocks is a ProviderError.
AnthropicAnswered(empty) ==
    /\ anthropic.pc \in {"first", "retry"}
    /\ LET probed == /\ anthropic.requests[1] = PROBE_MAX_TOKENS
                     /\ AnthropicModel \notin DOMAIN anthropic.cache
           a == IF probed
                THEN [anthropic EXCEPT !.cache = (AnthropicModel :> PROBE_MAX_TOKENS)]
                ELSE anthropic
       IN  anthropic' =
              IF empty
              THEN [a EXCEPT
                      !.pc = "raised",
                      !.raised = Some(Exc("ProviderError",
                                          ProviderErrorStr(
                                              AnthropicProvider,
                                              "Empty response: no content blocks returned"),
                                          None))]
              ELSE [a EXCEPT !.pc = "done"]
    /\ UNCHANGED <<debug, event_log, messages, frames, run, stream, last, answered, adapter, router, context_obj, llm_response, harness, log_obj>>

\* The call is over; the agent's next call finds the module's cache as the
\* call left it.
AnthropicNextCall ==
    /\ anthropic.pc \in {"done", "raised"}
    /\ anthropic.calls < MaxAnthropicCalls
    /\ anthropic' = [IdleAnthropic EXCEPT
          !.max_output_tokens = anthropic.max_output_tokens,
          !.cache = anthropic.cache,
          !.pc = "start",
          !.calls = anthropic.calls + 1]
    /\ UNCHANGED <<debug, event_log, messages, frames, run, stream, last, answered, adapter, router, context_obj, llm_response, harness, log_obj>>

AnthropicNext ==
    \/ AnthropicNextCall
    \/ AnthropicRequest
    \/ AnthropicOtherCallCaches
    \/ \E e \in VendorErrors : AnthropicFirstFails(e)
    \/ \E e \in VendorErrors : AnthropicRetryFails(e)
    \/ \E empty \in BOOLEAN : AnthropicAnswered(empty)

AnthropicSpec == AnthropicInit /\ [][AnthropicNext]_vars

\* -------------------------------------------------- anthropic: messages
\* The tool_result blocks of the run of tool messages that starts at i.
RECURSIVE tool_results_from(_, _)
tool_results_from(ctx_messages, i) ==
    IF i <= Len(ctx_messages) /\ ctx_messages[i].role = "tool"
    THEN <<[type |-> "tool_result",
            tool_use_id |-> ctx_messages[i].tool_call_id,
            content |-> ContentOrEmpty(ctx_messages[i].content)]>>
         \o tool_results_from(ctx_messages, i + 1)
    ELSE <<>>

\* The content blocks of an assistant message: its text, if it has any,
\* then one tool_use block per tool call.
assistant_blocks(msg) ==
    (IF msg.content # None /\ msg.content[1] # ""
     THEN <<[type |-> "text", text |-> msg.content[1]]>>
     ELSE <<>>)
    \o (IF msg.tool_calls = None THEN <<>>
        ELSE [k \in 1..Len(msg.tool_calls[1]) |->
                 [type |-> "tool_use",
                  id |-> msg.tool_calls[1][k].id,
                  name |-> msg.tool_calls[1][k].name,
                  input |-> msg.tool_calls[1][k].arguments]])

\* A conversion with one user message per tool message.
RECURSIVE build_messages_unmerged(_, _)
build_messages_unmerged(ctx_messages, i) ==
    IF i > Len(ctx_messages) THEN <<>>
    ELSE LET msg == ctx_messages[i]
         IN  CASE msg.role = "user" ->
                    <<[role |-> "user", content |-> ContentOrEmpty(msg.content)]>>
                    \o build_messages_unmerged(ctx_messages, i + 1)
               [] msg.role = "assistant" ->
                    <<[role |-> "assistant", content |-> assistant_blocks(msg)]>>
                    \o build_messages_unmerged(ctx_messages, i + 1)
               [] msg.role = "tool" ->
                    <<[role |-> "user",
                       content |-> <<tool_results_from(ctx_messages, i)[1]>>]>>
                    \o build_messages_unmerged(ctx_messages, i + 1)
               [] OTHER -> build_messages_unmerged(ctx_messages, i + 1)

\* anthropic._build_messages, from index i on (no message of the runtime
\* has attachments): a user message as it is, an assistant message as
\* content blocks, a run of tool messages as one user message of
\* tool_result blocks, any other role skipped.
RECURSIVE build_messages(_, _)
build_messages(ctx_messages, i) ==
    IF i > Len(ctx_messages) THEN <<>>
    ELSE LET msg == ctx_messages[i]
         IN  CASE msg.role = "user" ->
                    <<[role |-> "user", content |-> ContentOrEmpty(msg.content)]>>
                    \o build_messages(ctx_messages, i + 1)
               [] msg.role = "assistant" ->
                    <<[role |-> "assistant", content |-> assistant_blocks(msg)]>>
                    \o build_messages(ctx_messages, i + 1)
               [] msg.role = "tool" ->
                    LET tool_results == tool_results_from(ctx_messages, i)
                    IN  <<[role |-> "user", content |-> tool_results]>>
                        \o build_messages(ctx_messages, i + Len(tool_results))
               [] OTHER -> build_messages(ctx_messages, i + 1)

Next ==
    \/ Execute
    \/ \E f \in 1..Len(frames) : LLMReturn(f)
    \/ \E f \in 1..Len(frames) : LLMRaise(f)
    \/ \E f \in 1..Len(frames), k \in 1..MaxCalls : TaskStart(f, k)
    \/ \E f \in 1..Len(frames), k \in 1..MaxCalls : ToolReturn(f, k)
    \/ \E f \in 1..Len(frames), k \in 1..MaxCalls : ToolRaise(f, k)
    \/ \E f \in 1..Len(frames) : Gathered(f)
    \/ ExecuteStream
    \/ \E f \in 1..Len(frames) : StreamLLMReturn(f)
    \/ \E f \in 1..Len(frames) : StreamLLMEmpty(f)
    \/ \E f \in 1..Len(frames) : StreamLLMRaise(f)
    \/ \E f \in 1..Len(frames) : StreamToolReturn(f)
    \/ \E f \in 1..Len(frames) : StreamToolRaise(f)

Spec == Init /\ [][Next]_vars

\* ------------------------------------------------- runs that come to an end
\* The batch path with LLMs and tools that always answer, LLMs that end
\* every turn after at most MaxTurns answers, and a delegation tree of depth
\* at most MaxDepth in which every agent delegates to itself.
RECURSIVE Depth(_, _)
\* The number of callers above the loop of frame g.
Depth(frs, g) ==
    IF frs[g].parent_call_id = NoCall THEN 0
    ELSE 1 + Depth(frs, frs[g].parent_call_id)

\* The answers of an LLM that ends its turn in time: a text or a finish at
\* any turn; before the last turn also tool calls, among them one call_agent
\* to the agent itself while the tree may still grow.
EndingAnswers(f) ==
    LET self == frames[f].agent
        shapes ==
            {[name |-> "search", arguments |-> [query |-> "q"]]}
            \cup (IF Depth(frames, f) < MaxDepth
                  THEN {[name |-> CALL_AGENT,
                         arguments |-> [agent_name |-> self, message |-> "sub"]]}
                  ELSE {})
    IN  {LLMResponse(Some("hi"), None),
         LLMResponse(None, Some(WithIds(<<[name |-> FINISH,
                                           arguments |-> [message |-> "done"]]>>)))}
        \cup (IF frames[f].llm < MaxTurns
              THEN {LLMResponse(None, Some(WithIds(l))) :
                       l \in {m \in UNION {[1..n -> shapes] : n \in 1..MaxCalls} :
                                Cardinality({i \in 1..Len(m) : m[i].name = CALL_AGENT}) <= 1}}
              ELSE {})

\* response = await self._router.call_llm(...) with such an LLM.
CallLLMReturns(f) ==
    /\ run.mode = "batch"
    /\ frames[f].pc = "await_llm"
    /\ \E response \in EndingAnswers(f) :
          /\ Apply(loop_response(State, f, response))
          /\ last' = Some([call_id |-> f, response |-> response])
    /\ answered' = answered + 1
    /\ UNCHANGED <<adapter, debug, router, context_obj, llm_response, anthropic, harness, log_obj>>

TerminationNext ==
    \/ Execute
    \/ \E f \in 1..Len(frames) : CallLLMReturns(f)
    \/ \E f \in 1..Len(frames), k \in 1..MaxCalls : TaskStart(f, k)
    \/ \E f \in 1..Len(frames), k \in 1..MaxCalls : ToolReturn(f, k)
    \/ \E f \in 1..Len(frames), k \in 1..MaxCalls : ToolRaise(f, k)
    \/ \E f \in 1..Len(frames) : Gathered(f)

\* What the event loop and the tools do on their own: a coroutine that can
\* run is run, and an awaited tool callable comes back (with a value or an
\* exception).
LoopRuns ==
    \/ Execute
    \/ \E f \in 1..Len(frames), k \in 1..MaxCalls : TaskStart(f, k)
    \/ \E f \in 1..Len(frames), k \in 1..MaxCalls : ToolReturn(f, k)
    \/ \E f \in 1..Len(frames), k \in 1..MaxCalls : ToolRaise(f, k)
    \/ \E f \in 1..Len(frames) : Gathered(f)

\* An awaited call_llm comes back.  Only CallLLMReturns changes `answered`,
\* so the weak fairness of this action on `answered` is that of
\* CallLLMReturns, with the await itself as its enabling condition.
AwaitedLLMReturns ==
    /\ run.mode = "batch"
    /\ \E f \in 1..Len(frames) : frames[f].pc = "await_llm"
    /\ answered' = answered + 1

\* Every step that stays possible is taken: the event loop runs what can
\* run, and every awaited LLM call and tool callable comes back.
TerminationSpec ==
    Init /\ [][TerminationNext]_vars /\ WF_vars(LoopRuns) /\ WF_answered(AwaitedLLMReturns)

\* ------------------------------------------- two runs on the same adapter
\* async_run and async_run_stream, one after the other, with the same entry
\* agent and message, on an adapter that is a function of the agent and its
\* Context, with tools and agents that are always found and never fail.
RECURSIVE Path(_, _)
\* Where the loop of frame g stands in the delegation tree: for every caller
\* above it, the caller's round and the position of the call_agent call.
Path(frs, g) ==
    LET p == frs[g].parent_call_id
    IN  IF p = NoCall THEN <<>>
        ELSE Append(Path(frs, p), <<frs[p].rounds, frs[g].slot>>)

\* The number of the LLM call that is made with Context ctx.
Turn(ctx) == 1 + Cardinality({i \in 1..Len(ctx) : ctx[i].role = "assistant"})

\* The tool calls such an adapter asks for: a finish, the registered tool,
\* and, for agent A, the registered agent B.
SafeShapes(agent) ==
    {[name |-> "search", arguments |-> [query |-> "q"]]}
    \cup (IF agent = "A"
          THEN {[name |-> CALL_AGENT, arguments |-> [agent_name |-> "B", message |-> "sub"]]}
          ELSE {})

\* What the adapter may answer to a Context it sees for the first time: a
\* text or a finish at any turn; before turn MaxTurns also tool calls.
FirstAnswers(agent, ctx) ==
    {LLMResponse(c, None) : c \in Contents}
    \cup {LLMResponse(None, Some(WithIds(<<fin>>))) : fin \in FinishShapes}
    \cup (IF Turn(ctx) < MaxTurns
          THEN {LLMResponse(c, Some(WithIds(l))) :
                   c \in {None, Some("hi")},
                   l \in UNION {[1..n -> SafeShapes(agent)] : n \in 1..MaxCalls}}
          ELSE {})

\* backend.call / backend.stream of the adapter for the loop of frame f: the
\* answer it gave to this agent and Context before, if any.
AdapterAnswers(f) ==
    LET known == {e \in harness.policy :
                    e.agent = frames[f].agent /\ e.context = frames[f].context}
    IN  IF known # {} THEN {e.response : e \in known}
        ELSE FirstAnswers(frames[f].agent, frames[f].context)

\* The adapter remembers its answer; the call is noted for the run.
adapter_called(h, f, response) ==
    [h EXCEPT
        !.policy = @ \cup {[agent |-> frames[f].agent, context |-> frames[f].context,
                            response |-> response]},
        !.calls = @ \cup {[path |-> Path(frames, f), turn |-> Turn(frames[f].context),
                           agent |-> frames[f].agent, context |-> frames[f].context]}]

\* Router.call_llm returns the adapter's answer to the batch loop of frame f.
AdapterCallReturns(f) ==
    /\ run.mode = "batch"
    /\ frames[f].pc = "await_llm"
    /\ \E response \in AdapterAnswers(f) :
          /\ Apply(loop_response(State, f, response))
          /\ last' = Some([call_id |-> f, response |-> response])
          /\ harness' = adapter_called(harness, f, response)
    /\ answered' = answered + 1
    /\ UNCHANGED <<adapter, debug, router, context_obj, llm_response, anthropic, log_obj>>

\* Router.stream_llm ends with the adapter's answer in the streaming loop of
\* frame f.
AdapterStreamReturns(f) ==
    /\ run.mode = "stream"
    /\ frames[f].pc = "await_llm"
    /\ \E response \in AdapterAnswers(f) :
          /\ Apply(stream_response(State, f, response))
          /\ last' = Some([call_id |-> f, response |-> response])
          /\ harness' = adapter_called(harness, f, response)
    /\ answered' = answered + 1
    /\ UNCHANGED <<adapter, debug, router, context_obj, llm_response, anthropic, log_obj>>

\* The output of the last finish event of a stream ("" without one), as
\* execute_stream keeps it.
last_finish_output(events) ==
    LET fin == {i \in 1..Len(events) : events[i].type = "finish"}
    IN  IF fin = {} THEN ""
        ELSE dict_get(events[CHOOSE i \in fin : \A j \in fin : i >= j].data, "output", "")

\* The result of the run that is over: RunResult.output of a batch run, the
\* output of the last finish event of a streaming run.
run_output ==
    IF run.mode = "batch" THEN run.value[1].output ELSE last_finish_output(stream)

\* The first run is over and its result kept; async_run / async_run_stream
\* build a new Router and Runtime for the second run, on the same adapter.
SecondRun ==
    /\ run.status = "returned"
    /\ harness.first = None
    /\ harness' = [harness EXCEPT
                      !.first = Some([mode |-> run.mode, output |-> run_output,
                                      calls |-> harness.calls]),
                      !.calls = {}]
    /\ event_log' = None
    /\ messages' = <<>>
    /\ frames' = <<>>
    /\ run' = [mode |-> "idle", status |-> "idle", value |-> None, output |-> ""]
    /\ stream' = <<>>
    /\ last' = None
    /\ answered' = 0
    /\ UNCHANGED <<adapter, debug, router, context_obj, llm_response, anthropic, log_obj>>

\* Both entry points are called without debug.
EquivalenceInit == Init /\ ~debug

EquivalenceNext ==
    \/ Execute
    \/ \E f \in 1..Len(frames) : AdapterCallReturns(f)
    \/ \E f \in 1..Len(frames), k \in 1..MaxCalls : TaskStart(f, k)
    \/ \E f \in 1..Len(frames), k \in 1..MaxCalls : ToolReturn(f, k)
    \/ \E f \in 1..Len(frames) : Gathered(f)
    \/ ExecuteStream
    \/ \E f \in 1..Len(frames) : AdapterStreamReturns(f)
    \/ \E f \in 1..Len(frames) : StreamToolReturn(f)
    \/ SecondRun

EquivalenceSpec == EquivalenceInit /\ [][EquivalenceNext]_vars

\* ------------------------------------------------------------------ claims
\* Helpers of the formulas below.
BatchFrames == IF run.mode = "batch" THEN 1..Len(frames) ELSE {}

StartsWith(text, prefix) ==
    Len(text) >= Len(prefix) /\ SubSeq(text, 1, Len(prefix)) = prefix

\* The frame the last LLM answer went to, and the answer.
LastFrame == frames[last[1].call_id]
LastResponse == last[1].response

\* A frame that is over is never touched again.
EndedFramesStay ==
    \A f \in 1..Len(frames) : ~Live(frames[f]) => frames'[f] = frames[f]

\* C1: in the batch loop an LLM response with an empty tool_calls list ends
\* the turn at once: its output is response.content, or "" for a null or
\* empty content, execute returns that output for the entry agent, and the
\* ended loop makes no further LLM call (it is never touched again).
C1_EmptyToolCallsEndTurn ==
    /\ [](run.mode = "batch" /\ last # None /\ Len(LastResponse.tool_calls) = 0
          => /\ LastFrame.pc = "returned"
             /\ LastFrame.output =
                  Some(IF LastResponse.content \in {None, Some("")} THEN ""
                       ELSE LastResponse.content[1])
             /\ (LastFrame.parent_call_id = NoCall
                   => run.status = "returned" /\ run.value[1].output = LastFrame.output[1]))
    /\ [][EndedFramesStay]_vars

\* A sub-agent got a response without tool calls and with null content, and
\* returned "".
C1_Witness ==
    /\ run.mode = "batch"
    /\ last # None
    /\ LastResponse = [content |-> None, tool_calls |-> <<>>]
    /\ LastFrame.parent_call_id # NoCall
    /\ LastFrame.pc = "returned"
    /\ LastFrame.output = Some("")

\* The positions of the finish calls of the last answer.
LastFinishes ==
    {i \in 1..Len(LastResponse.tool_calls) : LastResponse.tool_calls[i].name = "finish"}

\* C2: in the batch loop a response with one or more finish calls ends the
\* turn with the message argument of the leftmost finish call ("" when it
\* has none), whatever other tool calls come before or after it.
C2_LeftmostFinishWins ==
    run.mode = "batch" /\ last # None /\ LastFinishes # {}
    => \E i \in LastFinishes :
          /\ \A j \in LastFinishes : i <= j
          /\ LastFrame.pc = "returned"
          /\ LastFrame.output =
               Some(IF "message" \in DOMAIN LastResponse.tool_calls[i].arguments
                    THEN LastResponse.tool_calls[i].arguments.message
                    ELSE "")

\* A response [search, finish{message: "done"}] ended the turn with "done"
\* (the search was not awaited).
C2_Witness ==
    /\ run.mode = "batch"
    /\ last # None
    /\ Len(LastResponse.tool_calls) = 2
    /\ LastResponse.tool_calls[1].name = "search"
    /\ LastResponse.tool_calls[2].name = "finish"
    /\ LastFrame.pc = "returned"
    /\ LastFrame.output = Some("done")

\* Every assistant message with tool calls c1..cn is followed by exactly n
\* tool messages with the ids c1.id..cn.id in order, and every tool message
\* belongs to such a block.
WellFormedContext(ctx) ==
    /\ \A i \in 1..Len(ctx) :
          ctx[i].role = "assistant" /\ ctx[i].tool_calls # None
          => LET tcs == ctx[i].tool_calls[1]
             IN  /\ i + Len(tcs) <= Len(ctx)
                 /\ \A k \in 1..Len(tcs) :
                       /\ ctx[i + k].role = "tool"
                       /\ ctx[i + k].tool_call_id = Some(tcs[k].id)
                 /\ (i + Len(tcs) < Len(ctx) => ctx[i + Len(tcs) + 1].role # "tool")
    /\ \A j \in 1..Len(ctx) :
          ctx[j].role = "tool"
          => \E i \in 1..(j - 1) :
                /\ ctx[i].role = "assistant"
                /\ ctx[i].tool_calls # None
                /\ j - i <= Len(ctx[i].tool_calls[1])

\* C3: whenever a Context is handed to an LLM call (batch or streaming),
\* each assistant message with tool calls is immediately followed by exactly
\* one tool message per call, with the calls' ids in order, and there is no
\* tool message without such an assistant message before it.
C3_ToolResultsMatchCalls ==
    \A f \in 1..Len(frames) :
        frames[f].pc = "await_llm" => WellFormedContext(frames[f].context)

\* A streaming loop is about to call the LLM again with a Context that holds
\* an assistant message with two tool calls and their two tool messages.
C3_Witness ==
    \E f \in 1..Len(frames) :
        /\ run.mode = "stream"
        /\ frames[f].pc = "await_llm"
        /\ Len(frames[f].context) = 4
        /\ frames[f].context[2].role = "assistant"
        /\ frames[f].context[4].tool_call_id = Some("tc2")

\* The tool message of the k-th call of the last round of a frame that is
\* back at the LLM call.
RoundMsg(fr, k) == fr.context[Len(fr.context) - Len(fr.tasks) + k]

\* What the k-th task produced, as the tool message shows it.
Produced(task) ==
    IF task.st = "exc" THEN "Error: " \o task.val.text ELSE task.val

\* C4: in the batch path the k-th tool message appended after a round
\* carries what the k-th tool call of the response produced (its result or
\* its error string), in whatever order the calls were completed.
C4_ResultsInCallOrder ==
    \A f \in BatchFrames :
        frames[f].pc = "await_llm" /\ frames[f].rounds > 0
        => /\ Len(frames[f].context) > Len(frames[f].tasks)
           /\ \A k \in 1..Len(frames[f].tasks) :
                 /\ RoundMsg(frames[f], k).role = "tool"
                 /\ RoundMsg(frames[f], k).content = Some(Produced(frames[f].tasks[k]))

\* Two sub-agents of one response: the second one (call_id 3) returned
\* before the first one (call_id 2), with another output, and the caller is
\* back at its LLM call.
C4_Witness ==
    /\ run.mode = "batch"
    /\ Len(frames) = 3
    /\ frames[1].pc = "await_llm"
    /\ frames[1].rounds = 1
    /\ \E i, j \in 1..Len(messages) :
          /\ i < j
          /\ messages[i].type = "return" /\ messages[i].call_id = 3
          /\ messages[j].type = "return" /\ messages[j].call_id = 2
          /\ messages[i].content # messages[j].content

\* C5: in the batch path a loop is at an LLM call only when every tool call
\* of its previous response is complete (no task unfinished, no sub-agent
\* loop of it in progress) and all their results are in its Context; and it
\* has made exactly one LLM call more than it has completed rounds.
C5_NextCallAfterAllResults ==
    \A f \in BatchFrames :
        Live(frames[f])
        => /\ frames[f].llm = frames[f].rounds + 1
           /\ (frames[f].pc = "await_llm" /\ frames[f].rounds > 0
                 => /\ \A k \in 1..Len(frames[f].tasks) :
                          frames[f].tasks[k].st \in {"done", "exc"}
                    /\ \A g \in 1..Len(frames) :
                          frames[g].parent_call_id = f => ~Live(frames[g])
                    /\ Len(frames[f].context) > Len(frames[f].tasks)
                    /\ \A k \in 1..Len(frames[f].tasks) :
                          RoundMsg(frames[f], k).tool_call_id =
                              Some(frames[f].response[1].tool_calls[k].id))

\* The entry agent is at its second LLM call after a round of a sub-agent
\* and a tool.
C5_Witness ==
    /\ run.mode = "batch"
    /\ Len(frames) = 2
    /\ frames[1].pc = "await_llm"
    /\ frames[1].llm = 2
    /\ Len(frames[1].tasks) = 2
    /\ frames[2].pc = "returned"

\* C6: in the batch path a raising tool callable does not abort the turn:
\* execute does not raise the ToolError, and once the loop is back at its LLM
\* call the failed call has a tool message beginning with "Error: " and every
\* other call of the response has finished and has its own tool message.
C6_ToolFailureKeepsTurn ==
    /\ (run.mode = "batch" /\ run.status = "raised" => run.value[1].cls # "ToolError")
    /\ \A f \in BatchFrames :
          \A k \in 1..Len(frames[f].tasks) :
              /\ frames[f].tasks[k].st = "exc"
              /\ frames[f].tasks[k].val.cls = "ToolError"
              /\ frames[f].tasks[k].val.cause # None
              /\ frames[f].pc = "await_llm"
              => /\ Len(frames[f].context) > Len(frames[f].tasks)
                 /\ StartsWith(RoundMsg(frames[f], k).content[1], "Error: ")
                 /\ \A j \in 1..Len(frames[f].tasks) :
                       /\ frames[f].tasks[j].st \in {"done", "exc"}
                       /\ RoundMsg(frames[f], j).role = "tool"
                       /\ RoundMsg(frames[f], j).tool_call_id =
                              Some(frames[f].response[1].tool_calls[j].id)

\* Two searches in one response: the first raised, the second returned, and
\* the loop went on to its next LLM call with both tool messages.
C6_Witness ==
    \E f \in BatchFrames :
        /\ frames[f].pc = "await_llm"
        /\ Len(frames[f].tasks) = 2
        /\ frames[f].tasks[1].st = "exc"
        /\ frames[f].tasks[1].val.cause = Some("boom")
        /\ frames[f].tasks[2] = [st |-> "done", val |-> "res"]
        /\ RoundMsg(frames[f], 1).content = Some("Error: [search] boom")
        /\ RoundMsg(frames[f], 2).content = Some("res")

\* C7: in the batch path a call_agent call whose agent_name is not
\* registered raises a RoutingError that ends the caller's turn: a loop one
\* of whose tool calls raised a RoutingError never goes on to another LLM call.
C7_UnknownAgentEndsTurn ==
    \A f \in BatchFrames :
        (\E k \in 1..Len(frames[f].tasks) :
            /\ frames[f].tasks[k].st = "exc"
            /\ frames[f].tasks[k].val.cls = "RoutingError")
        => frames[f].pc # "await_llm"

\* C8: in the batch path a ProviderError of an LLM call is never turned into
\* a tool-result string in the Context of an ancestor.
C8_ProviderErrorNeverToolResult ==
    \A f \in BatchFrames :
        \A i \in 1..Len(frames[f].context) :
            frames[f].context[i].role = "tool"
            => frames[f].context[i].content #
                  Some("Error: " \o ProviderErrorStr(ProviderName, ProviderFailure))

\* C9: in the event log of a debug batch run that returned a RunResult,
\* every agent_call event has a later agent_return or finish event with the
\* same call_id.
C9_EveryCallHasReturn ==
    run.mode = "batch" /\ run.status = "returned" /\ event_log # None
    => \A i \in 1..Len(event_log[1]) :
          event_log[1][i].event_type = "agent_call"
          => \E j \in (i + 1)..Len(event_log[1]) :
                /\ event_log[1][j].event_type \in {"agent_return", "finish"}
                /\ event_log[1][j].call_id = event_log[1][i].call_id

\* C10: in every prefix of the event log of a debug batch run, an event with
\* a non-null parent_call_id comes after some event whose call_id is that
\* parent_call_id.
C10_EventCausality ==
    run.mode = "batch" /\ event_log # None
    => \A i \in 1..Len(event_log[1]) :
          event_log[1][i].parent_call_id # NoCall
          => \E j \in 1..(i - 1) :
                event_log[1][j].call_id = event_log[1][i].parent_call_id

\* A sub-agent's loop recorded its events under the entry agent's call_id,
\* and the sub-agent returned.
C10_Witness ==
    /\ run.mode = "batch"
    /\ event_log # None
    /\ \E i, j \in 1..Len(event_log[1]) :
          /\ i < j
          /\ event_log[1][i].event_type = "llm_response"
          /\ event_log[1][i].parent_call_id = 1
          /\ event_log[1][j].event_type = "agent_return"
          /\ event_log[1][j].parent_call_id = 1

\* The positions of the events of one type and call_id in the event log.
EventsAt(event_type, c) ==
    {i \in 1..Len(event_log[1]) :
        /\ event_log[1][i].event_type = event_type
        /\ event_log[1][i].call_id = c}

\* The agent_call / agent_return pair of sub-agent call_id c, called at
\* position i by parent p, encloses every event of c and lies inside the
\* pair of p.
Nested(i, c, p) ==
    /\ \E j \in EventsAt("agent_call", p) : j < i
    /\ \A k \in 1..Len(event_log[1]) : event_log[1][k].call_id = c => k >= i
    /\ \A rc \in EventsAt("agent_return", c) :
          \A k \in 1..Len(event_log[1]) : event_log[1][k].call_id = c => k <= rc
    /\ \A rp \in EventsAt("agent_return", p) :
          \E rc \in EventsAt("agent_return", c) : rc < rp

\* C11: in the event log of a debug batch run, for every sub-agent call_id
\* c with parent p, agent_call(c) comes after agent_call(p), agent_return(c)
\* comes before agent_return(p), and every other event of c lies between
\* agent_call(c) and agent_return(c).
C11_CallReturnNested ==
    run.mode = "batch" /\ event_log # None
    => \A i \in 1..Len(event_log[1]) :
          /\ event_log[1][i].event_type = "agent_call"
          /\ event_log[1][i].parent_call_id # NoCall
          => Nested(i, event_log[1][i].call_id, event_log[1][i].parent_call_id)

\* The positions of the finish and error events of the stream.
Terminators == {i \in 1..Len(stream) : stream[i].type \in {"finish", "error"}}

\* C12: a streaming run that has come to its end has emitted exactly one
\* finish or error StreamEvent, and that event is the last of the stream.
C12_OneStreamTerminator ==
    run.mode = "stream" /\ run.status = "returned"
    => Terminators = {Len(stream)}

\* Tool call tc can be started: its tool or its target agent is registered.
Resolvable(tc) ==
    IF tc.name = "call_agent"
    THEN "agent_name" \in DOMAIN tc.arguments
         /\ tc.arguments.agent_name \in RegisteredAgents
    ELSE tc.name \in RegisteredTools

\* Frame f has just got the tool message of its call k, with an error text.
ErrorAppended(f, k) ==
    LET tcs == frames[f].response[1].tool_calls
        ctx == frames'[f].context
    IN  /\ Len(ctx) = Len(frames[f].context) + 1
        /\ SubSeq(ctx, 1, Len(frames[f].context)) = frames[f].context
        /\ ctx[Len(ctx)].role = "tool"
        /\ ctx[Len(ctx)].tool_call_id = Some(tcs[k].id)
        /\ StartsWith(ctx[Len(ctx)].content[1], "Error: ")

\* What the step of a raising tool callable in streaming frame f leads to.
AfterStreamToolRaise(f) ==
    LET k == frames[f].idx
        tcs == frames[f].response[1].tool_calls
    IN  IF k = Len(tcs)
        THEN /\ ErrorAppended(f, k)
             /\ run'.status = "running"
             /\ frames'[f].pc = "await_llm"
             /\ frames'[f].llm = frames[f].llm + 1
        ELSE IF Resolvable(tcs[k + 1])
        THEN /\ ErrorAppended(f, k)
             /\ run'.status = "running"
             /\ frames'[f].pc \in {"tool", "sub"}
             /\ frames'[f].idx = k + 1
        ELSE /\ run'.status = "raised"
             /\ run'.value[1].cause = None

\* C13: in the streaming path a raising tool callable does not abort the
\* stream: its tool message begins with "Error: ", the loop goes on to the
\* next tool call of the response and, after the last one, to the next LLM
\* turn.  (A next call that names an unknown tool or agent ends the stream
\* with its own lookup error, not with the callable's exception.)
C13_StreamToolFailureKeepsStream ==
    [][\A f \in 1..Len(frames) : StreamToolRaise(f) => AfterStreamToolRaise(f)]_vars

\* A streaming loop whose first search raised is now at its second search.
C13_Witness ==
    \E f \in 1..Len(frames) :
        /\ run.mode = "stream"
        /\ frames[f].pc = "tool"
        /\ frames[f].idx = 2
        /\ Len(frames[f].context) = 3
        /\ frames[f].context[3].content = Some("Error: boom")

\* What the step of an adapter stream without LLMResponse leads to in frame
\* f: the error event, the end of the loop, and after it only what the
\* consumer of the loop does (execute_stream ends; a caller emits
\* agent_return).
AfterStreamLLMEmpty(f) ==
    /\ Len(stream') > Len(stream)
    /\ SubSeq(stream', 1, Len(stream)) = stream
    /\ stream'[Len(stream) + 1] =
          [type |-> "error", agent_name |-> frames[f].agent,
           data |-> [error |-> "No response from LLM"]]
    /\ frames'[f].pc = "error"
    /\ \A i \in (Len(stream) + 2)..Len(stream') :
          stream'[i].type \notin {"error", "finish", "token"}
    /\ IF frames[f].parent_call_id = NoCall
       THEN Len(stream') = Len(stream) + 1 /\ run'.status = "returned"
       ELSE stream'[Len(stream) + 2].type = "agent_return"

\* C14: in the streaming path, when the adapter's stream of an agent ends
\* without an LLMResponse, the agent's loop emits one error event with
\* error = "No response from LLM" and ends: it emits nothing more and, being
\* over, never makes another LLM call.
C14_NoResponseEndsLoop ==
    [][/\ \A f \in 1..Len(frames) : StreamLLMEmpty(f) => AfterStreamLLMEmpty(f)
       /\ (run.mode = "stream" => EndedFramesStay)]_vars

\* A sub-agent's stream ended without a response; its caller went on.
C14_Witness ==
    \E f \in 1..Len(frames) :
        /\ run.mode = "stream"
        /\ frames[f].pc = "error"
        /\ frames[f].parent_call_id # NoCall
        /\ Live(frames[frames[f].parent_call_id])
        /\ \E i \in 1..Len(stream) :
              /\ stream[i].type = "error"
              /\ stream[i].agent_name = frames[f].agent

\* Event i of the stream is one a loop emits for itself (not the
\* agent_call / agent_return a caller emits around a sub-agent).
OwnEvent(i) == stream[i].type \in {"token", "tool_call", "finish", "error"}

\* The agent_call events minus the agent_return events among the first i
\* events: the sub-agent streams open after event i.
OpenCalls(i) ==
    Cardinality({j \in 1..i : stream[j].type = "agent_call"})
    - Cardinality({j \in 1..i : stream[j].type = "agent_return"})

\* The tool messages a frame's Context holds for its current response.
ResultsSoFar(fr) ==
    Len(fr.context)
    - (CHOOSE i \in 1..Len(fr.context) :
          /\ fr.context[i].role = "assistant"
          /\ \A j \in (i + 1)..Len(fr.context) : fr.context[j].role # "assistant")

\* The stream is bracketed: a sub-agent's own events lie after the
\* agent_call of its caller and before the agent_return, the entry agent's
\* own events lie outside every such pair, and a caller waiting for a
\* sub-agent has not yet appended the result of that call.
SubStreamBracketed ==
    /\ \A i \in 1..Len(stream) :
          OwnEvent(i)
          => IF stream[i].agent_name = EntryAgent
             THEN OpenCalls(i) = 0
             ELSE /\ OpenCalls(i) = 1
                  /\ \E j \in 1..(i - 1) :
                        /\ stream[j].type = "agent_call"
                        /\ stream[j].agent_name = stream[i].agent_name
                        /\ \A k \in (j + 1)..i : OwnEvent(k)
    /\ \A f \in 1..Len(frames) :
          frames[f].pc = "sub"
          => /\ OpenCalls(Len(stream)) = 1
             /\ ResultsSoFar(frames[f]) = frames[f].idx - 1

\* A step that starts the loop of a sub-agent ends with the caller's
\* agent_call{from, message} event.
SubStreamStarts ==
    Len(frames') > Len(frames) /\ Len(frames) > 0
    => LET g == Len(frames')
           p == frames'[g].parent_call_id
           tc == frames'[p].response[1].tool_calls[frames'[p].idx]
       IN  /\ stream'[Len(stream')] =
                 [type |-> "agent_call", agent_name |-> frames'[g].agent,
                  data |-> [from |-> frames'[p].agent,
                            message |-> tc.arguments.message]]
           /\ frames'[g].context[1].content = Some(tc.arguments.message)

\* A step that ends the loop of sub-agent g by its finish or error event:
\* the stream gets g's own events up to that event, then agent_return with
\* g's output, and the caller's Context gets that output as the result of
\* the call.
SubStreamEnds(g) ==
    LET p == frames[g].parent_call_id
        out == IF frames'[g].pc = "returned" THEN frames'[g].output[1] ELSE ""
        tc == frames[p].response[1].tool_calls[frames[p].idx]
    IN  /\ Live(frames[g])
        /\ p # NoCall
        /\ frames'[g].pc \in {"returned", "error"}
        => \E r \in (Len(stream) + 2)..Len(stream') :
              /\ SubSeq(stream', 1, Len(stream)) = stream
              /\ \A i \in (Len(stream) + 1)..(r - 1) :
                    /\ stream'[i].agent_name = frames[g].agent
                    /\ stream'[i].type \in {"token", "tool_call", "finish", "error"}
              /\ stream'[r - 1] \in
                    {[type |-> "finish", agent_name |-> frames[g].agent,
                      data |-> [output |-> out]],
                     [type |-> "error", agent_name |-> frames[g].agent,
                      data |-> [error |-> "No response from LLM"]]}
              /\ stream'[r] = [type |-> "agent_return", agent_name |-> frames[g].agent,
                               data |-> [result |-> out]]
              /\ \A i \in (r + 1)..Len(stream') :
                    stream'[i].type \in {"tool_call", "agent_call"}
              /\ \/ run'.status = "raised"
                 \/ /\ Len(frames'[p].context) = Len(frames[p].context) + 1
                    /\ frames'[p].context[Len(frames'[p].context)] =
                          [role |-> "tool", content |-> Some(out), tool_calls |-> None,
                           tool_call_id |-> Some(tc.id), tool_name |-> Some(tc.name)]
                    /\ \/ frames'[p].pc = "await_llm"
                       \/ frames'[p].idx = frames[p].idx + 1

\* C15: in the streaming path the caller of a sub-agent emits
\* agent_call{from, message} before any event of the sub-agent, then the
\* sub-agent's events reach the stream as the sub-agent emitted them, then
\* the caller emits agent_return{result}, and only then does it append the
\* tool result to its Context and take the next tool call.
C15_SubAgentStreamBracketed ==
    /\ [](run.mode = "stream" => SubStreamBracketed)
    /\ [][run.mode = "stream"
          => /\ SubStreamStarts
             /\ \A g \in 1..Len(frames) : SubStreamEnds(g)]_vars

\* A caller has got the output "done" of its sub-agent, after a tool call
\* event of the sub-agent, and is at its next LLM call.
C15_Witness ==
    /\ run.mode = "stream"
    /\ Len(frames) = 2
    /\ frames[1].pc = "await_llm"
    /\ frames[2].pc = "returned"
    /\ \E i \in 1..Len(stream) :
          /\ stream[i].type = "tool_call" /\ stream[i].agent_name = "B"
          /\ i + 2 <= Len(stream)
          /\ stream[i + 1] = [type |-> "finish", agent_name |-> "B",
                              data |-> [output |-> "done"]]
          /\ stream[i + 2] = [type |-> "agent_return", agent_name |-> "B",
                              data |-> [result |-> "done"]]
    /\ frames[1].context[Len(frames[1].context)].content = Some("done")

\* The sub-agent loops of frame f that are in progress.
LiveChildren(f) ==
    {g \in 1..Len(frames) : frames[g].parent_call_id = f /\ Live(frames[g])}

\* Streaming frame f works on one tool call at a time: at call k the
\* results of calls 1..k-1, and no others, are in its Context, in order; a
\* tool callable runs only after its tool_call event and without any
\* sub-agent of f; a sub-agent of f runs only for the current call.
OneCallAtATime(f) ==
    LET fr == frames[f]
    IN  /\ fr.pc \in {"tool", "sub"}
           => /\ fr.idx \in 1..Len(fr.response[1].tool_calls)
              /\ ResultsSoFar(fr) = fr.idx - 1
              /\ \A j \in 1..(fr.idx - 1) :
                    fr.context[Len(fr.context) - (fr.idx - 1) + j].tool_call_id =
                        Some(fr.response[1].tool_calls[j].id)
        /\ fr.pc = "tool"
           => /\ LiveChildren(f) = {}
              /\ stream[Len(stream)] =
                    [type |-> "tool_call", agent_name |-> fr.agent,
                     data |-> [tool_name |-> fr.response[1].tool_calls[fr.idx].name,
                               arguments |-> fr.response[1].tool_calls[fr.idx].arguments]]
        /\ fr.pc = "sub"
           => /\ Cardinality(LiveChildren(f)) = 1
              /\ \A g \in LiveChildren(f) : frames[g].slot = fr.idx
        /\ fr.pc = "await_llm" => LiveChildren(f) = {}

\* The calls of a response are taken in tool_calls order: the first after
\* the response, and call k + 1 straight after call k.
CallsInOrder(f) ==
    frames'[f].pc \in {"tool", "sub"}
    => \/ frames[f].pc = "await_llm" /\ frames'[f].idx = 1
       \/ /\ frames[f].pc \in {"tool", "sub"}
          /\ frames'[f].response = frames[f].response
          /\ frames'[f].idx \in {frames[f].idx, frames[f].idx + 1}

\* C16: in the streaming path the tool calls of one response run strictly
\* one after another in tool_calls order: call k is started (its tool_call
\* event emitted) only when call k-1 is over and its result is in the
\* Context, and at most one tool callable is running at any time.
C16_StreamCallsSerial ==
    /\ [](run.mode = "stream"
          => /\ \A f \in 1..Len(frames) : OneCallAtATime(f)
             /\ Cardinality({f \in 1..Len(frames) : frames[f].pc = "tool"}) <= 1)
    /\ [][run.mode = "stream" => \A f \in 1..Len(frames) : CallsInOrder(f)]_vars

\* A streaming loop runs the tool of its second call after the sub-agent of
\* its first call has returned.
C16_Witness ==
    /\ run.mode = "stream"
    /\ Len(frames) = 2
    /\ frames[1].pc = "tool"
    /\ frames[1].idx = 2
    /\ frames[1].response[1].tool_calls[1].name = "call_agent"
    /\ frames[2].pc = "returned"
    /\ ResultsSoFar(frames[1]) = 1

\* C18: the RunResult of a batch run has trace and event_log both null
\* when debug is false and both non-null when debug is true, and its
\* messages are non-empty either way.
C18_DebugGating ==
    run.mode = "batch" /\ run.status = "returned"
    => /\ (debug => run.value[1].trace # None /\ run.value[1].event_log # None)
       /\ (~debug => run.value[1].trace = None /\ run.value[1].event_log = None)
       /\ Len(run.value[1].messages) > 0

\* A debug run with a sub-agent returned a RunResult whose trace has the
\* entry agent's span as its root.
C18_Witness ==
    /\ run.mode = "batch"
    /\ run.status = "returned"
    /\ debug
    /\ Len(frames) = 2
    /\ run.value[1].trace # None
    /\ run.value[1].trace[1].root # None
    /\ run.value[1].trace[1].root[1].agent_name = "A"
    /\ Len(run.value[1].event_log[1]) > 2

\* C19: in the Message log of a batch run that returned a RunResult the
\* first message is the forward from "user" to the entry agent, the last is
\* the return from the entry agent to "user" with the same call_id and with
\* the RunResult's output as content, and every message between them is a
\* sub-agent's (neither from nor to "user", with another call_id).
C19_EntryMessagesEnclose ==
    run.mode = "batch" /\ run.status = "returned"
    => LET msgs == run.value[1].messages
           n == Len(msgs)
       IN  /\ msgs = messages
           /\ n >= 2
           /\ msgs[1] = [type |-> "forward", sender |-> "user",
                         receiver |-> EntryAgent, content |-> EntryMessage,
                         call_id |-> msgs[1].call_id]
           /\ msgs[n] = [type |-> "return", sender |-> EntryAgent,
                         receiver |-> "user", content |-> run.value[1].output,
                         call_id |-> msgs[1].call_id]
           /\ \A i \in 2..(n - 1) :
                 /\ msgs[i].sender # "user"
                 /\ msgs[i].receiver # "user"
                 /\ msgs[i].call_id # msgs[1].call_id

\* A returned run with two sub-agent calls: six messages, the entry
\* agent's pair around the sub-agents' pairs.
C19_Witness ==
    /\ run.mode = "batch"
    /\ run.status = "returned"
    /\ Len(run.value[1].messages) = 6
    /\ run.value[1].messages[2].type = "forward"
    /\ run.value[1].messages[2].receiver = "B"
    /\ run.value[1].messages[6].receiver = "user"
    /\ run.value[1].output = "done"

\* C20: in the Message log of a batch run that returned a RunResult every
\* forward Message has exactly one return Message with the same call_id,
\* later in the log and with sender and receiver exchanged, and no two
\* forward Messages have the same call_id.
C20_ForwardReturnPairs ==
    run.mode = "batch" /\ run.status = "returned"
    => LET msgs == run.value[1].messages
           Returns(i) == {j \in 1..Len(msgs) :
                            /\ msgs[j].type = "return"
                            /\ msgs[j].call_id = msgs[i].call_id}
       IN  \A i \in 1..Len(msgs) :
              msgs[i].type = "forward"
              => /\ Cardinality(Returns(i)) = 1
                 /\ \A j \in Returns(i) :
                       /\ j > i
                       /\ msgs[j].sender = msgs[i].receiver
                       /\ msgs[j].receiver = msgs[i].sender
                 /\ \A k \in 1..Len(msgs) :
                       msgs[k].type = "forward" /\ msgs[k].call_id = msgs[i].call_id
                       => k = i

RECURSIVE Joined(_, _)
\* The texts of the first n items of a stream, joined.
Joined(items, n) ==
    IF n = 0 THEN "" ELSE Joined(items, n - 1) \o items[n].val

\* C17: an adapter stream that completes without raising has yielded zero
\* or more strings and then exactly one LLMResponse, its last element, and
\* the strings joined in order are that response's content (a null content
\* counting as the empty string).
C17_StreamContract ==
    adapter.status = "done"
    => LET n == Len(adapter.yielded)
       IN  /\ n >= 1
           /\ adapter.yielded[n].kind = "resp"
           /\ \A i \in 1..(n - 1) : adapter.yielded[i].kind = "str"
           /\ Joined(adapter.yielded, n - 1) =
                 (IF adapter.yielded[n].val.content = None THEN ""
                  ELSE adapter.yielded[n].val.content[1])

\* The Anthropic stream yielded "a", "b" and then a response with content
\* "ab".
C17_Witness ==
    /\ adapter.kind = "anthropic"
    /\ adapter.status = "done"
    /\ Len(adapter.yielded) = 3
    /\ adapter.yielded[1] = StrItem("a")
    /\ adapter.yielded[2] = StrItem("b")
    /\ adapter.yielded[3].val.content = Some("ab")

\* The latest sub-agent loop frame f started for its tool call k.
ChildOf(f, k) ==
    LET gs == {g \in 1..Len(frames) :
                  frames[g].parent_call_id = f /\ frames[g].slot = k}
    IN  CHOOSE g \in gs : \A h \in gs : h <= g

\* The Context of live frame f holds f's own messages only: the user message
\* it was started with, one assistant message per response it dispatched,
\* the last of them with the tool calls and content of its current response.
OwnContext(f) ==
    LET fr == frames[f]
        ctx == fr.context
        dispatched == fr.rounds + (IF fr.pc \in {"gather", "tool", "sub"} THEN 1 ELSE 0)
        assistants == {i \in 1..Len(ctx) : ctx[i].role = "assistant"}
    IN  /\ Len(ctx) >= 1
        /\ ctx[1].role = "user"
        /\ \A i \in 2..Len(ctx) : ctx[i].role # "user"
        /\ Cardinality(assistants) = dispatched
        /\ dispatched > 0
           => LET a == CHOOSE i \in assistants : \A j \in assistants : j <= i
              IN  /\ ctx[a].tool_calls = Some(fr.response[1].tool_calls)
                  /\ ctx[a].content = fr.response[1].content
                  /\ Len(ctx) - a <= Len(fr.response[1].tool_calls)

\* The sub-agent loop g was started on a Context whose first message is the
\* user message with the message argument of the call that started it, and
\* before its first response that is its only message.
FreshContext(g) ==
    LET p == frames[g].parent_call_id
        tc == frames[p].response[1].tool_calls[frames[g].slot]
        msg == IF "message" \in DOMAIN tc.arguments THEN tc.arguments.message ELSE ""
    IN  /\ frames[g].context[1] =
              [role |-> "user", content |-> Some(msg), tool_calls |-> None,
               tool_call_id |-> None, tool_name |-> None]
        /\ (frames[g].rounds = 0 /\ frames[g].pc = "await_llm"
              => Len(frames[g].context) = 1)

\* Frame f is back at its LLM call: the last response's calls have one tool
\* message each, and each call_agent call whose sub-agent ended its loop
\* with an output has that output as the content of its tool message.
SubOutputsAsResults(f) ==
    LET fr == frames[f]
        ctx == fr.context
        tcs == fr.response[1].tool_calls
        n == Len(tcs)
    IN  /\ Len(ctx) > n
        /\ ctx[Len(ctx) - n].role = "assistant"
        /\ \A k \in 1..n :
              (/\ tcs[k].name = "call_agent"
               /\ \E g \in 1..Len(frames) :
                     frames[g].parent_call_id = f /\ frames[g].slot = k
               /\ frames[ChildOf(f, k)].pc = "returned")
              => ctx[Len(ctx) - n + k] =
                     [role |-> "tool",
                      content |-> frames[ChildOf(f, k)].output,
                      tool_calls |-> None,
                      tool_call_id |-> Some(tcs[k].id),
                      tool_name |-> Some("call_agent")]

\* C21: the target of every call_agent call runs on a fresh Context that
\* starts with the user message of the call's message argument; when the
\* sub-agent has ended with its terminal output, the caller's Context has
\* exactly one tool message for the call, with that output as content; and
\* no Context holds a message of another agent's loop (batch and streaming).
C21_SubAgentContextIsolated ==
    \A f \in 1..Len(frames) :
        Live(frames[f])
        => /\ OwnContext(f)
           /\ (frames[f].parent_call_id # NoCall => FreshContext(f))
           /\ (frames[f].pc = "await_llm" /\ frames[f].rounds > 0
                 => SubOutputsAsResults(f))

\* Batch: A called B in a response of two calls; B ended with an output; A
\* is back at its LLM call with B's output as the result of that call.
C21_Witness ==
    /\ run.mode = "batch"
    /\ Len(frames) >= 2
    /\ frames[1].pc = "await_llm"
    /\ frames[1].rounds = 1
    /\ Len(frames[1].context) = 4
    /\ frames[2].parent_call_id = 1
    /\ frames[2].pc = "returned"
    /\ frames[2].output # None
    /\ \E k \in 1..2 :
          /\ frames[2].slot = k
          /\ frames[1].response[1].tool_calls[k].name = "call_agent"
          /\ frames[1].context[2 + k].content = frames[2].output
    /\ \E e \in 1..Len(messages) :
          messages[e].type = "return" /\ messages[e].sender = "B"

\* C22: build_tool_schemas returns one schema per registered tool, then the
\* call_agent schema (agent_name and message, strings, both required), then
\* the finish schema (message, a string, required), whatever the agent name.
C22_BuiltinSchemasLast ==
    router.schemas # None
    => LET schemas == router.schemas[1]
           tools == router.obj[1].tools
           n == Len(schemas)
           params(i) == schemas[i].parameters
       IN  /\ n = Len(tools) + 2
           /\ \A i \in 1..Len(tools) :
                 /\ schemas[i] = to_schema(tools[i].value)
                 /\ Cardinality({j \in 1..Len(tools) :
                                    schemas[j].name = tools[i].key}) = 1
           /\ schemas[n - 1].name = "call_agent"
           /\ DOMAIN params(n - 1).properties = {"agent_name", "message"}
           /\ \A q \in {"agent_name", "message"} :
                 params(n - 1).properties[q].type = "string"
           /\ params(n - 1).required = <<"agent_name", "message">>
           /\ schemas[n].name = "finish"
           /\ DOMAIN params(n).properties = {"message"}
           /\ params(n).properties.message.type = "string"
           /\ params(n).required = <<"message">>

\* A Router built with two tools of the name "search" and asked for the
\* schemas: one search schema (of the later tool), then the two built-ins.
C22_Witness ==
    /\ router.schemas # None
    /\ Len(router.schemas[1]) = 3
    /\ router.schemas[1][1] = to_schema(Tool("search", "Search again.", "q"))
    /\ router.schemas[1][2].name = "call_agent"
    /\ router.schemas[1][3].name = "finish"

\* C26: within one Router the backend factory is invoked at most once per
\* provider kind, and every call_llm of that kind uses the same adapter
\* object, whatever the order of the calls and however many are awaiting
\* their adapter at the same time.
C26_OneBackendPerKind ==
    /\ \A i, j \in 1..Len(router.created) :
          router.created[i] = router.created[j] => i = j
    /\ \A i, j \in 1..Len(router.used) :
          router.used[i].kind = router.used[j].kind
          => router.used[i].backend = router.used[j].backend

\* Two calls of agents with different providers of the kind openai are
\* awaiting the same adapter object at the same time.
C26_Witness ==
    /\ Len(router.used) >= 2
    /\ {1, 2} \subseteq router.pending
    /\ router.used[1].agent # router.used[2].agent
    /\ router.used[1].kind = "openai"
    /\ router.used[2].kind = "openai"
    /\ router.used[1].backend = router.used[2].backend
    /\ router.created = <<"openai">>

\* C23: whatever is done to the lists obtained from Context.messages, the
\* Context's own message sequence is the messages added, in insertion
\* order, and every snapshot held, when it was taken, exactly the messages
\* added until then, in insertion order.
C23_SnapshotsAreCopies ==
    /\ context_obj.lists[context_obj.internal] = context_obj.added
    /\ \A s \in 1..Len(context_obj.snapshots) :
          LET snap == context_obj.snapshots[s]
          IN  /\ snap.list # context_obj.internal
              /\ snap.taken = SubSeq(context_obj.added, 1, snap.after)
              /\ \A t \in 1..Len(context_obj.snapshots) :
                    t # s => context_obj.snapshots[t].list # snap.list

\* A first snapshot was taken after one add and then changed twice by its
\* holder; a message was added; a second snapshot lists both messages.
C23_Witness ==
    /\ Len(context_obj.snapshots) = 2
    /\ context_obj.mutations = 2
    /\ context_obj.snapshots[1].after = 1
    /\ context_obj.lists[context_obj.snapshots[1].list] # context_obj.snapshots[1].taken
    /\ context_obj.snapshots[2].after = 2
    /\ context_obj.snapshots[2].taken = context_obj.added
    /\ Len(context_obj.added) = 2

\* The pieces of a content that lie outside its reasoning blocks, joined: a
\* block runs from an opening tag met outside any block to the next closing
\* tag of the same name, or to the end of the content without one.
RECURSIVE OutsideBlocks(_, _)
OutsideBlocks(parts, open) ==
    IF parts = <<>> THEN ""
    ELSE LET piece == parts[1]
             rest == Tail(parts)
         IN  IF open = ""
             THEN IF \E t \in 1..Len(ReasoningTags) : piece = "<" \o ReasoningTags[t] \o ">"
                  THEN OutsideBlocks(rest, SubSeq(piece, 2, Len(piece) - 1))
                  ELSE piece \o OutsideBlocks(rest, "")
             ELSE IF piece = "</" \o open \o ">"
                  THEN OutsideBlocks(rest, "")
                  ELSE OutsideBlocks(rest, open)

\* C24: content_without_reasoning is None exactly when content is None or
\* nothing but whitespace lies outside the reasoning blocks, and is the
\* trimmed text outside the blocks otherwise; the response's content, and
\* the Context message built from it, are the original text.
C24_ReasoningStrippedOnRead ==
    llm_response.response # None
    => LET response == llm_response.response[1]
           outside == strip(OutsideBlocks(llm_response.parts, ""))
       IN  /\ response.content = llm_response.given
           /\ llm_response.read # None
              => /\ llm_response.read[1] = None
                    <=> (llm_response.given = None \/ outside = "")
                 /\ llm_response.read[1] # None
                    => llm_response.read[1][1] = outside
           /\ \A i \in 1..Len(llm_response.context) :
                 llm_response.context[i].content = llm_response.given

\* The content "<think>a</thinking>a" has been read as None (the block
\* opened by <think> is not closed by </thinking>) and stored as it is.
C24_Witness ==
    /\ llm_response.parts = <<"<think>", "a", "</thinking>", "a">>
    /\ llm_response.read = Some(None)
    /\ Len(llm_response.context) = 1
    /\ llm_response.context[1].content = Some("<think>a</thinking>a")

\* How often call_id c occurs in the children list of span p of trace t.
TimesChildOf(t, c, p) ==
    Cardinality({i \in 1..Len(t.spans[p].children) : t.spans[p].children[i] = c})

\* C25: in the Trace of a debug batch run the root is the span of the entry
\* agent's call_id, and the span of every sub-agent call is exactly once
\* among the children of the span of the call that invoked it and nowhere
\* else.
C25_TraceTreeMatchesCalls ==
    (run.mode = "batch" /\ run.status = "returned" /\ run.value[1].trace # None)
    => LET t == run.value[1].trace[1]
       IN  /\ t.root # None
           /\ t.root[1].call_id = 1
           /\ t.root[1].agent_name = EntryAgent
           /\ \A g \in 1..Len(frames) :
                 frames[g].parent_call_id # NoCall
                 => /\ g \in DOMAIN t.spans
                    /\ frames[g].parent_call_id \in DOMAIN t.spans
                    /\ \A p \in DOMAIN t.spans :
                          TimesChildOf(t, g, p) =
                              IF p = frames[g].parent_call_id THEN 1 ELSE 0

\* A debug run in which A called B twice in one response and the second
\* call was recorded before the first ended: both spans are children of A's.
C25_Witness ==
    /\ run.mode = "batch"
    /\ run.status = "returned"
    /\ run.value[1].trace # None
    /\ run.value[1].trace[1].spans[1].children = <<2, 3>>
    /\ \E i, j \in 1..Len(event_log[1]) :
          /\ i < j
          /\ event_log[1][i].event_type = "agent_call"
          /\ event_log[1][i].call_id = 3
          /\ event_log[1][j].event_type \in {"finish", "agent_return"}
          /\ event_log[1][j].call_id = 2

\* C27 as stated: in the batch path at most one sub-agent loop started by
\* the call_agent calls of one response is in progress at any time.
C27_SubAgentsSerial ==
    \A f \in BatchFrames : Cardinality(LiveChildren(f)) <= 1

\* C27 amended: in the batch path the sub-agent loops started by the
\* call_agent calls of one response are tasks of the same gather as the
\* other calls of the response: each loop in progress belongs to a
\* call_agent call of its own in the caller's current response, several may
\* be in progress at once, and the caller is back at its LLM call, or over,
\* only when none is in progress.
C27_SubAgentsJoinedByGather ==
    \A f \in BatchFrames :
        /\ frames[f].pc # "gather" => LiveChildren(f) = {}
        /\ \A g \in LiveChildren(f) :
              /\ frames[f].response[1].tool_calls[frames[g].slot].name = "call_agent"
              /\ frames[f].tasks[frames[g].slot].st = "sub"
              /\ \A h \in LiveChildren(f) : h # g => frames[h].slot # frames[g].slot

\* Two sub-agent loops started by one response of A are both awaiting
\* their LLM at the same time.
C27_Witness ==
    /\ run.mode = "batch"
    /\ Len(frames) >= 3
    /\ frames[1].pc = "gather"
    /\ frames[2].parent_call_id = 1
    /\ frames[3].parent_call_id = 1
    /\ frames[2].pc = "await_llm"
    /\ frames[3].pc = "await_llm"
    /\ frames[1].tasks[1].st = "sub"
    /\ frames[1].tasks[2].st = "sub"

\* The limit each vendor error carries, and whether it speaks of max_tokens.
ErrorLimit(e) ==
    CASE e = "max_tokens: 999999999 > 64000, which is the maximum allowed" -> Some(64000)
      [] e = "max_tokens limit is 4096" -> Some(4096)
      [] e = "rate limit is 5 per minute" -> Some(5)
      [] e = "input > 100, too long" -> Some(100)
      [] OTHER -> None

MentionsMaxTokens(e) ==
    e \in {"max_tokens: 999999999 > 64000, which is the maximum allowed",
           "max_tokens limit is 4096", "MAX_TOKENS too large"}

\* C28: a call of the Anthropic adapter sends at most two requests; a
\* second one only when max_output_tokens is unset, the model had no cached
\* limit when the first request failed, and the first error carries a limit
\* (the retry uses it) or mentions max_tokens (the retry uses 8192); every
\* other first error, and every error of the retry, is raised as a
\* ProviderError of that error's text, with no further request.
C28_AtMostOneRetry ==
    LET a == anthropic
        n == Len(a.requests)
        retryable == /\ a.max_output_tokens = None
                     /\ ~a.cached_at_error
                     /\ (ErrorLimit(a.errors[1]) # None \/ MentionsMaxTokens(a.errors[1]))
    IN  /\ n <= 2
        /\ Len(a.errors) <= n
        /\ n = 2
           => /\ Len(a.errors) >= 1
              /\ retryable
              /\ a.requests[2] = IF ErrorLimit(a.errors[1]) # None
                                 THEN ErrorLimit(a.errors[1])[1]
                                 ELSE 8192
        /\ (Len(a.errors) = 1 /\ ~retryable)
           => /\ n = 1
              /\ a.pc = "raised"
              /\ a.raised[1].cls = "ProviderError"
              /\ a.raised[1].cause = Some(a.errors[1])
        /\ Len(a.errors) = 2
           => /\ a.pc = "raised"
              /\ a.raised[1].cls = "ProviderError"
              /\ a.raised[1].cause = Some(a.errors[2])

\* The probe was refused with an error that only mentions MAX_TOKENS, the
\* retry went out with 8192 and was refused too: ProviderError after two
\* requests.
C28_Witness ==
    /\ anthropic.requests = <<999999999, 8192>>
    /\ anthropic.errors = <<"MAX_TOKENS too large", "overloaded">>
    /\ anthropic.pc = "raised"
    /\ anthropic.raised[1].text = "[claude] overloaded"

\* The ids of the tool_use blocks among the content blocks, in their order.
RECURSIVE ToolUseIds(_)
ToolUseIds(blocks) ==
    IF blocks = <<>> THEN <<>>
    ELSE (IF blocks[1].type = "tool_use" THEN <<blocks[1].id>> ELSE <<>>)
         \o ToolUseIds(Tail(blocks))

\* The Anthropic messages alternate user, assistant, user, ..., and every
\* assistant message with tool_use blocks is followed by one user message
\* of tool_result blocks with the same ids in the same order.
AnthropicWellFormed(ms) ==
    /\ Len(ms) >= 1
    /\ \A i \in 1..Len(ms) :
          ms[i].role = IF i % 2 = 1 THEN "user" ELSE "assistant"
    /\ \A i \in 1..Len(ms) :
          (ms[i].role = "assistant" /\ ToolUseIds(ms[i].content) # <<>>)
          => /\ i < Len(ms)
             /\ Len(ms[i + 1].content) = Len(ToolUseIds(ms[i].content))
             /\ \A k \in 1..Len(ms[i + 1].content) :
                   /\ ms[i + 1].content[k].type = "tool_result"
                   /\ ms[i + 1].content[k].tool_use_id =
                         Some(ToolUseIds(ms[i].content)[k])

\* C29: for every Context an agent loop, batch or streaming, has handed to
\* an LLM call, the Anthropic message list built from it starts with a user
\* message and alternates strictly, and the tool results of an assistant
\* turn are one user message whose tool_result blocks carry that turn's
\* tool_use ids in the same order.
C29_AnthropicMessagesAlternate ==
    \A f \in 1..Len(frames) :
        frames[f].pc = "await_llm"
        => AnthropicWellFormed(build_messages(frames[f].context, 1))

\* A Context with a turn of two tool calls and their results is at the
\* LLM: three Anthropic messages, the third with both tool_result blocks.
C29_Witness ==
    \E f \in 1..Len(frames) :
        /\ frames[f].pc = "await_llm"
        /\ Len(frames[f].context) = 4
        /\ LET ms == build_messages(frames[f].context, 1)
           IN  /\ Len(ms) = 3
               /\ Len(ms[3].content) = 2
               /\ ms[3].content[1].tool_use_id = Some("tc1")
               /\ ms[3].content[2].tool_use_id = Some("tc2")

\* C30: the tool message of a tool callable that raised an exception with
\* message m has the content "Error: " followed by m, the same in the batch
\* path and in the streaming path.
C30_ToolErrorContentUniform ==
    \A f \in 1..Len(frames) :
        \A i \in 1..Len(frames[f].context) :
            LET msg == frames[f].context[i]
            IN  (/\ msg.role = "tool"
                 /\ msg.tool_name[1] \in RegisteredTools \ {CALL_AGENT, FINISH}
                 /\ StartsWith(msg.content[1], "Error: "))
                => \E m \in ToolRaises : msg.content = Some("Error: " \o m)

\* The tool messages of frame f that answer a call naming a tool that is
\* neither registered nor a sentinel.
UnknownToolMessages(f) ==
    {i \in 1..Len(frames[f].context) :
        /\ frames[f].context[i].role = "tool"
        /\ frames[f].context[i].tool_name[1] \notin RegisteredTools \cup {CALL_AGENT, FINISH}}

\* C31: a tool call naming a tool that is neither registered nor a sentinel
\* is handled alike in the batch and the streaming path: the lookup's
\* ToolError never ends the run, the call gets a tool message beginning with
\* "Error: ", and the loop goes on to its next LLM turn.
C31_UnknownToolHandledAlike ==
    /\ run.status = "raised" => run.value[1].cls # "ToolError"
    /\ \A f \in 1..Len(frames) :
          \A i \in UnknownToolMessages(f) :
              StartsWith(frames[f].context[i].content[1], "Error: ")

\* The tool calls of a list that are finish calls.
FinishCalls(tool_calls) ==
    {i \in 1..Len(tool_calls) : tool_calls[i].name = FINISH}

\* Frame f is dispatching the tool calls of its response.
Dispatching(fr) == fr.pc \in {"gather", "tool", "sub"}

\* The last n messages of a Context are tool messages.
EndsWithToolResults(ctx, n) ==
    /\ Len(ctx) > n
    /\ \A i \in (Len(ctx) - n + 1)..Len(ctx) : ctx[i].role = "tool"

\* The step of frame f stays within the turn's state machine; an exception
\* (pc "raised") or a stream without response (pc "error") ends the turn
\* from where it is.
TurnStep(f) ==
    LET a == frames[f].pc
        b == frames'[f].pc
    IN  a # b =>
          \/ /\ a = "await_llm"
             /\ b \in {"gather", "tool", "sub", "returned", "error", "raised"}
          \/ /\ Dispatching(frames[f])
             /\ b \in {"tool", "sub", "raised"}
          \/ /\ Dispatching(frames[f])
             /\ b = "await_llm"
             /\ EndsWithToolResults(frames'[f].context,
                                    Len(frames[f].response[1].tool_calls))

\* C32: an agent turn goes AWAIT_LLM -> PROCESS_RESPONSE -> (DISPATCH_TOOLS ->
\* AWAIT_LLM | TERMINATED).  A loop dispatches only a response with at least
\* one tool call and no finish call; every assistant message of every Context
\* carries a non-empty tool-call list without a finish call (so none is a
\* plain text); dispatch goes back to the LLM call with the tool results
\* appended; and a loop that is over is never touched again.
C32_TurnStateMachine ==
    /\ [](\A f \in 1..Len(frames) :
            /\ Dispatching(frames[f]) =>
                  /\ frames[f].response # None
                  /\ Len(frames[f].response[1].tool_calls) >= 1
                  /\ FinishCalls(frames[f].response[1].tool_calls) = {}
            /\ \A i \in 1..Len(frames[f].context) :
                  frames[f].context[i].role = "assistant" =>
                      /\ frames[f].context[i].tool_calls # None
                      /\ Len(frames[f].context[i].tool_calls[1]) >= 1
                      /\ FinishCalls(frames[f].context[i].tool_calls[1]) = {})
    /\ [][/\ EndedFramesStay
          /\ \A f \in 1..Len(frames) : TurnStep(f)]_vars

\* The entry loop is back at its LLM call after a round of dispatch in which
\* a sub-agent's loop terminated.
C32_Witness ==
    /\ Len(frames) >= 2
    /\ frames[1].pc = "await_llm"
    /\ frames[1].rounds = 1
    /\ frames[2].pc = "returned"
    /\ frames[2].parent_call_id = 1

\* This step hands frame f an LLM response with a finish call among
\* several tool calls.
FinishAmongOthers(f) ==
    /\ answered' = answered + 1
    /\ last' # None
    /\ last'[1].call_id = f
    /\ frames[f].pc = "await_llm"
    /\ Len(last'[1].response.tool_calls) >= 2
    /\ FinishCalls(last'[1].response.tool_calls) # {}

\* What such a step leaves behind: the loop of f is over with the first
\* finish call's message; nothing was started for the other calls (no task,
\* no sub-agent loop, no forward Message, no return Message but its own, no
\* tool_exec or agent_call event, no tool_call or agent_call stream event).
OthersHaveNoEffect(f) ==
    LET tcs == last'[1].response.tool_calls
        first == CHOOSE i \in FinishCalls(tcs) : \A j \in FinishCalls(tcs) : i <= j
        log == IF event_log = None THEN <<>> ELSE event_log[1]
        log2 == IF event_log' = None THEN <<>> ELSE event_log'[1]
    IN  /\ frames'[f].pc = "returned"
        /\ frames'[f].output = Some(dict_get(tcs[first].arguments, "message", ""))
        /\ frames'[f].tasks = <<>>
        /\ \A g \in (Len(frames) + 1)..Len(frames') : frames'[g].parent_call_id # f
        /\ \A i \in (Len(messages) + 1)..Len(messages') :
              IF messages'[i].type = "return"
              THEN messages'[i].call_id = f
              ELSE frames'[messages'[i].call_id].parent_call_id # f
        /\ \A i \in (Len(log) + 1)..Len(log2) :
              /\ log2[i].call_id = f
              /\ log2[i].event_type \in {"llm_response", "finish", "agent_return"}
        /\ \A i \in (Len(stream) + 1)..Len(stream') :
              /\ stream'[i].type = "tool_call" => stream'[i].agent_name # frames[f].agent
              /\ stream'[i].type = "agent_call" => stream'[i].data.from # frames[f].agent

Sentinel(tc) == tc.name \in {CALL_AGENT, FINISH}

\* What a tool callable hands to the loop: its return value, or its
\* exception as the batch path and the streaming path word it.
CallableOutcomes ==
    ToolReturns
    \cup {"Error: " \o m : m \in ToolRaises}
    \cup {"Error: " \o ToolErrorStr(n, m) : n \in RegisteredTools, m \in ToolRaises}

\* C34: a tool call named finish or call_agent is handled by the runtime's
\* sentinel logic in both paths even though Tools of these names are
\* registered: no loop ever awaits the callable for such a call, no
\* tool_exec event or tool_call stream event names it, and no tool message
\* of such a call carries a callable's outcome.
C34_SentinelsNeverExecuted ==
    /\ {CALL_AGENT, FINISH} \subseteq RegisteredTools
    /\ \A f \in 1..Len(frames) :
          /\ \A k \in 1..Len(frames[f].tasks) :
                frames[f].tasks[k].st = "tool"
                => ~Sentinel(frames[f].response[1].tool_calls[k])
          /\ frames[f].pc = "tool"
                => ~Sentinel(frames[f].response[1].tool_calls[frames[f].idx])
          /\ \A i \in 1..Len(frames[f].context) :
                (/\ frames[f].context[i].role = "tool"
                 /\ frames[f].context[i].tool_name[1] \in {CALL_AGENT, FINISH})
                => frames[f].context[i].content[1] \notin CallableOutcomes
    /\ event_log # None =>
          \A i \in 1..Len(event_log[1]) :
              event_log[1][i].event_type = "tool_exec"
              => event_log[1][i].details.tool_name \notin {CALL_AGENT, FINISH}
    /\ \A i \in 1..Len(stream) :
          stream[i].type = "tool_call"
          => stream[i].data.tool_name \notin {CALL_AGENT, FINISH}

\* A loop holds the result of a call_agent call next to the result of a
\* real tool: the sentinel started a sub-agent, the tool ran its callable.
C34_Witness ==
    \E f \in 1..Len(frames) :
        /\ frames[f].pc = "await_llm"
        /\ Len(frames[f].context) = 4
        /\ frames[f].context[3].tool_name = Some(CALL_AGENT)
        /\ frames[f].context[3].content = Some("done")
        /\ frames[f].context[4].tool_name = Some("search")
        /\ frames[f].context[4].content = Some("res")
        /\ \E g \in 1..Len(frames) : frames[g].parent_call_id = f

\* This step hands frame f an LLM response that asks for tool calls and
\* does not finish.
AsksForMore(f) ==
    /\ answered' = answered + 1
    /\ last' # None
    /\ last'[1].call_id = f
    /\ frames[f].pc = "await_llm"
    /\ Len(last'[1].response.tool_calls) >= 1
    /\ FinishCalls(last'[1].response.tool_calls) = {}

\* C35: when every LLM call and every tool callable comes back, every turn
\* gets a terminal response in the end and the delegation tree is finite,
\* execute eventually returns a RunResult; and the runtime caps neither the
\* turns nor the depth: whatever the turn number and the depth of a loop
\* (its agent calling itself included), a response that asks for tool calls
\* is dispatched.
C35_ExecuteTerminates ==
    /\ <>(/\ run.mode = "batch"
          /\ run.status = "returned"
          /\ run.value # None
          /\ run.value[1].output \in {"hi", "done"})
    /\ [][\A f \in 1..Len(frames) :
            AsksForMore(f) =>
                /\ frames'[f].pc = "gather"
                /\ Len(frames'[f].tasks) = Len(last'[1].response.tool_calls)]_vars

\* execute has returned after a run in which an agent called itself down to
\* depth MaxDepth and the deepest loop took MaxTurns turns.
C35_Witness ==
    /\ run.status = "returned"
    /\ \E g \in 1..Len(frames) :
          /\ Depth(frames, g) = MaxDepth
          /\ frames[g].agent = frames[frames[g].parent_call_id].agent
          /\ frames[g].pc = "returned"
    /\ answered >= MaxDepth + MaxTurns

\* C36: on an adapter whose response depends only on the agent and its
\* Context, with tools and agent lookups that never fail, a streaming run
\* and a batch run of the same entry agent and message end alike: the
\* output of the streaming run's last finish event is RunResult.output of
\* the batch run, and both runs make the same LLM calls (the same Context at
\* the same turn of the same loop of the delegation tree).
C36_StreamEqualsBatch ==
    (/\ run.status = "returned"
     /\ harness.first # None
     /\ harness.first[1].mode # run.mode)
    => /\ run_output = harness.first[1].output
       /\ harness.calls = harness.first[1].calls

\* A batch run that delegated to B next to a search, then ended with a
\* finish, was followed by a streaming run that is over as well.
C36_Witness ==
    /\ run.status = "returned"
    /\ run.mode = "stream"
    /\ harness.first # None
    /\ harness.first[1].mode = "batch"
    /\ harness.first[1].output = "done"
    /\ Cardinality(harness.calls) = 3
    /\ \E c \in harness.calls :
          /\ c.agent = "B"
          /\ c.path = <<<<0, 1>>>>
    /\ \E c \in harness.calls :
          /\ c.agent = "A"
          /\ c.turn = 2
          /\ Len(c.context) = 4
          /\ c.context[4].content = Some("res")

\* C37: in the streaming path the output captured for an agent (the content
\* of its return Message, which for a sub-agent is also the result of its
\* agent_return event) is the output of that agent's own finish event, and
\* "" when its loop ended with an error event; never the finish output of
\* one of its descendants.
C37_StreamOutputIsOwnFinish ==
    run.mode = "stream" =>
        \A i \in 1..Len(messages) :
            messages[i].type = "return" =>
                LET g == messages[i].call_id
                IN  messages[i].content =
                        IF frames[g].pc = "returned" THEN frames[g].output[1] ELSE ""

\* C38: with max_output_tokens unset, once a call for a model has succeeded
\* (directly, after a retry with a parsed limit, or after the 8192
\* fallback), the per-model cache holds a value the vendor accepts: when
\* the call that succeeds is one whose probe request the vendor rejected,
\* the cache does not hold the probe value afterwards, so the next call
\* does not send it again.
C38_CacheNeverHoldsRejectedProbe ==
    [][(/\ anthropic.max_output_tokens = None
        /\ anthropic.pc = "retry"
        /\ anthropic.requests[1] = PROBE_MAX_TOKENS
        /\ anthropic'.pc = "done")
       => dict_get(anthropic'.cache, AnthropicModel, 0) # PROBE_MAX_TOKENS]_vars

\* C39: the EventLog is changed only by record: whatever is done to the
\* lists that events and filter returned (filter with any arguments, none
\* included), the log holds the events recorded, in the order of the record
\* calls, and iteration and len show exactly those.
C39_LogChangedOnlyByRecord ==
    log_obj.internal # 0 =>
        /\ log_obj.lists[log_obj.internal] = log_obj.recorded
        /\ log_obj.seen # None =>
              /\ log_obj.seen[1].events = SubSeq(log_obj.recorded, 1, log_obj.seen[1].after)
              /\ log_obj.seen[1].len = log_obj.seen[1].after

\* C40: what content_outside_reasoning returns holds no opening tag
\* <think>, <thinking>, <reason> or <reasoning>, and the function applied to
\* it returns it unchanged.
C40_OutsideReasoningIsClean ==
    (llm_response.given # None /\ llm_response.read # None) =>
        LET out == content_outside_reasoning(llm_response.given[1])
        IN  /\ \A t \in 1..Len(ReasoningTags) :
                  ~contains(out, "<" \o ReasoningTags[t] \o ">")
            /\ content_outside_reasoning(out) = out

====
